---- MODULE Spec2Model ----
(***************************************************************************)
(* A model of snav's symbol search core: the fuzzy ranker                  *)
(* (internal/candidate/filter.go, fuzzy.go, semantic.go, key.go), the      *)
(* vimgrep record parser and the candidate producer                        *)
(* (internal/candidate/producer.go).                                       *)
(*                                                                         *)
(* Strings are sequences of code points (ASCII, as numbers); Go's 0-based  *)
(* indices are kept, so r[i] in the source is r[i + 1] here.               *)
(***************************************************************************)
EXTENDS Integers, Sequences, FiniteSets, TLC

VARIABLES
    \* ---- ranker (filter.go) ----
    candidates,     \* []Candidate handed to the ranker
    query,          \* the query string as typed (untrimmed)
    settings,       \* filterParallelThreshold, filterMinChunkSize, GOMAXPROCS
    fpc,            \* which ranker operation runs next
    job,            \* the running filter call: its chunks and parts
    res,            \* results of the finished ranker calls
    \* ---- record parser (producer.go) ----
    raw,            \* one record read from the grep child
    parsed,         \* parseRGVimgrepLine's return values (empty before the call)
    \* ---- producer (producer.go) ----
    pattern,        \* cfg.Pattern
    ppc,            \* position of the producer goroutine
    err,            \* the error the goroutine is about to report, or "nil"
    rgret,          \* what runRGPass returned and its child gave (none while it runs)
    pass,           \* 1 = declaration pass, 2 = config pass
    scanned,        \* records the scanner returned in the current pass
    seen,           \* map[candidateLocation]struct{}
    id,             \* last id handed out
    pending,        \* the candidate emitMatch is sending
    out,            \* the candidate channel's buffer
    outClosed,      \* close(out) has run
    done,           \* the done channel's buffer
    doneClosed,     \* close(done) has run
    cancelled,      \* ctx.Done() is closed
    sent,           \* every candidate sent on out, in order (history)
    dropped,        \* number of duplicates dropped (history)
    received,       \* candidates the consumer took from out
    doneSent,       \* every value sent on done, in order (history)
    \* ---- index cache (index_cache.go) ----
    cacheFile,      \* the file at indexCachePath(): absent, corrupt, or gob bytes
    tmpFile,        \* the file at indexCachePath() + ".tmp"
    spc,            \* position of the running SaveIndexCache
    saves,          \* arguments of every completed save, in order (history)
    loaded,         \* LoadIndexCache's return values (empty before the call)
    \* ---- controller (main.go) ----
    model,          \* the bubbletea model: the fields the producer's stream reaches
    tick,           \* position of the tick handler, its drain count and needFilter
    \* ---- span builder (internal/highlighter) ----
    hin,            \* one highlight request with what the file and the parser give for it
    hout,           \* HighlightWithParser's result for hin, once it returned
    \* ---- highlight cache (internal/highlighter) ----
    hcfg,           \* the highlighter's configuration: CacheSize, root, defaultMode
    cache,          \* the spanLRU: capacity, recency list (front first) and map keys
    touched,        \* history: the cached keys, the least recently touched first
    lastOp,         \* history: the last Lookup or Set, its request and whether it hit
    \* ---- highlight queue and workers (internal/highlighter) ----
    tasks,          \* h.tasks: the buffered channel of normalized requests
    hpending,       \* h.pending: the keys marked as queued
    callers,        \* the goroutines calling Queue: position, request and key
    hworkers,       \* the worker goroutines: position, request and lines at hand
    fileLines,      \* h.fileLines: the paths whose lines are kept
    reads,          \* history: the reads of files from disk, path and outcome
    \* ---- semantic classifier (semantic.go) ----
    sdecl,          \* one declaration line, without a visibility modifier
    sscores,        \* the scores the line got under each visibility prefix so far
    \* ---- controller under query edits (main.go) ----
    hist,           \* history: the age of the last query edit and what the last applyFilter saw
    \* ---- the cache directory under concurrent saves (index_cache.go) ----
    inodes,         \* the files of the cache directory, each a sequence of written blocks
    links,          \* the inode behind the cache path and behind the temporary path, 0 for none
    savers,         \* each process's SaveIndexCache call: its position, its descriptor and offset
    lastLoad,       \* history: what the last LoadIndexCache call read
    \* ---- the pass behind each emission (producer.go 63-72) ----
    sentPass        \* history: the pass that emitted each candidate of sent

filterVars == <<candidates, query, settings, fpc, job, res>>
parseVars == <<raw, parsed>>
producerVars == <<pattern, ppc, err, rgret, pass, scanned, seen, id, pending, out, outClosed, done,
                  doneClosed, cancelled, sent, dropped, received, doneSent>>
cacheVars == <<cacheFile, tmpFile, spc, saves, loaded>>
uiVars == <<model, tick>>
spanVars == <<hin, hout>>
lruVars == <<hcfg, cache, touched, lastOp>>
queueVars == <<tasks, hpending, callers, hworkers, fileLines, reads>>
semVars == <<sdecl, sscores>>
editVars == <<hist>>
fsVars == <<inodes, links, savers, lastLoad>>
passVars == <<sentPass>>
vars == <<filterVars, parseVars, producerVars, cacheVars, uiVars, spanVars, lruVars, queueVars, semVars, editVars, fsVars, passVars>>

\* What the actions of one component leave alone: the other components.
outsideFilter == <<parseVars, producerVars, cacheVars, uiVars, spanVars, lruVars, queueVars, semVars, editVars, fsVars, passVars>>
outsideParse == <<filterVars, producerVars, cacheVars, uiVars, spanVars, lruVars, queueVars, semVars, editVars, fsVars, passVars>>
outsideProducer == <<filterVars, parseVars, cacheVars, uiVars, spanVars, lruVars, queueVars, semVars, editVars, fsVars, passVars>>
\* What a send on the candidate channel leaves alone besides the producer's own state.
outsideEmission == <<filterVars, parseVars, cacheVars, uiVars, spanVars, lruVars, queueVars, semVars, editVars, fsVars>>
outsideCache == <<filterVars, parseVars, producerVars, uiVars, spanVars, lruVars, queueVars, semVars, editVars, fsVars, passVars>>
\* The controller reads the producer's channels.
outsideUI == <<filterVars, parseVars, cacheVars, spanVars, lruVars, queueVars, semVars, editVars, fsVars, passVars>>
outsideSpans == <<filterVars, parseVars, producerVars, cacheVars, uiVars, lruVars, queueVars, semVars, editVars, fsVars, passVars>>
outsideLRU == <<filterVars, parseVars, producerVars, cacheVars, uiVars, spanVars, queueVars, semVars, editVars, fsVars, passVars>>
\* Queue and the workers read and write the highlight cache.
outsideQueue == <<filterVars, parseVars, producerVars, cacheVars, uiVars, spanVars, semVars, editVars, fsVars, passVars>>
outsideSemantic == <<filterVars, parseVars, producerVars, cacheVars, uiVars, spanVars, lruVars, queueVars, editVars, fsVars, passVars>>
\* The controller under query edits reads the producer's channels too.
outsideEdit == <<filterVars, parseVars, cacheVars, spanVars, lruVars, queueVars, semVars, fsVars, passVars>>
outsideFs == <<filterVars, parseVars, producerVars, cacheVars, uiVars, spanVars, lruVars, queueVars, semVars, editVars, passVars>>

\* ------------------------------------------------------------------------
\* Code points
\* ------------------------------------------------------------------------

NUL == 0
TAB == 9
CR == 13
SPACE == 32
LPAREN == 40
RPAREN == 41
DOT == 46
SLASH == 47
COLON == 58
UNDERSCORE == 95

\* The printable ASCII characters but the double quote, the backslash and the
\* backquote, in code-point order; Runes turns a string literal into its code
\* points.
AsciiLow == " !"
AsciiMid == "#$%&'()*+,-./0123456789:;<=>?@ABCDEFGHIJKLMNOPQRSTUVWXYZ["
AsciiHigh == "]^_"
AsciiLetters == "abcdefghijklmnopqrstuvwxyz{|}~"

PosIn(table, c) ==
    IF \E i \in 1..Len(table) : SubSeq(table, i, i) = c
    THEN CHOOSE i \in 1..Len(table) : SubSeq(table, i, i) = c
    ELSE 0

Ord(c) ==
    IF PosIn(AsciiLow, c) > 0 THEN 31 + PosIn(AsciiLow, c)
    ELSE IF PosIn(AsciiMid, c) > 0 THEN 34 + PosIn(AsciiMid, c)
    ELSE IF PosIn(AsciiHigh, c) > 0 THEN 92 + PosIn(AsciiHigh, c)
    ELSE 96 + PosIn(AsciiLetters, c)

Runes(s) == [i \in 1..Len(s) |-> Ord(SubSeq(s, i, i))]

\* F applied to the value of v, v being evaluated once (a let).
Bind(v, F(_)) == CHOOSE r \in {F(x) : x \in {v}} : TRUE

\* unicode.IsSpace on ASCII: '\t', '\n', '\v', '\f', '\r', ' '.
IsSpace(r) == r \in 9..13 \/ r = SPACE

lowerRuneFast(r) == IF r >= 65 /\ r <= 90 THEN r + 32 ELSE r

IsAlnum(r) == (r >= 97 /\ r <= 122) \/ (r >= 65 /\ r <= 90) \/ (r >= 48 /\ r <= 57)

isBoundaryRune(r) == ~IsAlnum(r)

LowerRunes(r) == [i \in 1..Len(r) |-> lowerRuneFast(r[i])]

RECURSIVE skipLeadingSpaces(_, _)
skipLeadingSpaces(r, i) ==
    IF i < Len(r) /\ IsSpace(r[i + 1]) THEN skipLeadingSpaces(r, i + 1) ELSE i

nonSpaceRuneCount(r) == Cardinality({i \in 1..Len(r) : ~IsSpace(r[i])})

\* strings.TrimSpace
RECURSIVE TrimSpaceRight(_)
TrimSpaceRight(s) ==
    IF Len(s) > 0 /\ IsSpace(s[Len(s)]) THEN TrimSpaceRight(SubSeq(s, 1, Len(s) - 1)) ELSE s

RECURSIVE TrimSpaceLeft(_)
TrimSpaceLeft(s) ==
    IF Len(s) > 0 /\ IsSpace(s[1]) THEN TrimSpaceLeft(Tail(s)) ELSE s

TrimSpace(s) == TrimSpaceLeft(TrimSpaceRight(s))

\* strings.TrimLeft(s, " \t")
RECURSIVE TrimBlankLeft(_)
TrimBlankLeft(s) ==
    IF Len(s) > 0 /\ s[1] \in {SPACE, TAB} THEN TrimBlankLeft(Tail(s)) ELSE s

\* The string as runes, untrimmed.
TrimRunesKeepSpace(s) == s

\* TrimRunes: the trimmed string as runes (nil, the empty sequence, when empty).
TrimRunes(s) == TrimSpace(s)

\* strings.HasPrefix
HasPrefix(s, prefix) ==
    Len(s) >= Len(prefix) /\ SubSeq(s, 1, Len(prefix)) = prefix

\* strings.Contains
Contains(s, sub) ==
    \E i \in 0..(Len(s) - Len(sub)) : SubSeq(s, i + 1, i + Len(sub)) = sub

\* bytes.IndexByte / strings.IndexByte: 0-based index of the first b, or -1.
IndexByte(s, b) ==
    IF \E i \in 1..Len(s) : s[i] = b
    THEN (CHOOSE i \in 1..Len(s) : s[i] = b /\ \A j \in 1..(i - 1) : s[j] # b) - 1
    ELSE -1

\* strings.LastIndexByte
LastIndexByte(s, b) ==
    IF \E i \in 1..Len(s) : s[i] = b
    THEN (CHOOSE i \in 1..Len(s) : s[i] = b /\ \A j \in (i + 1)..Len(s) : s[j] # b) - 1
    ELSE -1

\* Go's string order (bytewise lexicographic) on ASCII strings: a < b.
RECURSIVE StringLess(_, _)
StringLess(a, b) ==
    IF Len(b) = 0 THEN FALSE
    ELSE IF Len(a) = 0 THEN TRUE
    ELSE IF a[1] # b[1] THEN a[1] < b[1]
    ELSE StringLess(Tail(a), Tail(b))

\* ------------------------------------------------------------------------
\* fuzzy.go
\* ------------------------------------------------------------------------

\* The body of the if that steps to the next query rune without skipping spaces.
fuzzyHitNoSkip(st, bonus, caseHit, queryLower) ==
    [qi |-> st.qi + 1,
     last |-> st.runeIdx,
     first |-> IF st.first < 0 THEN st.runeIdx ELSE st.first,
     score |-> st.score + bonus + (IF caseHit THEN 4 ELSE 0),
     runeIdx |-> st.runeIdx + 1,
     prev |-> st.prev,
     hasPrev |-> TRUE,
     caseMatches |-> st.caseMatches + (IF caseHit THEN 1 ELSE 0)]

\* One iteration of fuzzyScore's loop over the text, for the rune rawRune;
\* fuzzyHit is the body of its if.
fuzzyHitCaseBlind(st, bonus, caseHit, queryLower) ==
    [qi |-> skipLeadingSpaces(queryLower, st.qi + 1),
     last |-> st.runeIdx,
     first |-> IF st.first < 0 THEN st.runeIdx ELSE st.first,
     score |-> st.score + bonus,
     runeIdx |-> st.runeIdx + 1,
     prev |-> st.prev,
     hasPrev |-> TRUE,
     caseMatches |-> st.caseMatches]

fuzzyHit(st, bonus, caseHit, queryLower) ==
    [qi |-> skipLeadingSpaces(queryLower, st.qi + 1),
     last |-> st.runeIdx,
     first |-> IF st.first < 0 THEN st.runeIdx ELSE st.first,
     score |-> st.score + bonus + (IF caseHit THEN 4 ELSE 0),
     runeIdx |-> st.runeIdx + 1,
     prev |-> st.prev,
     hasPrev |-> TRUE,
     caseMatches |-> st.caseMatches + (IF caseHit THEN 1 ELSE 0)]

fuzzyStep(st, rawRune, queryRaw, queryLower, caseSensitive) ==
    IF st.qi < Len(queryLower) /\ lowerRuneFast(rawRune) = queryLower[st.qi + 1]
    THEN [fuzzyHit(st,
                   10 + (IF st.runeIdx = 0 \/ (st.hasPrev /\ isBoundaryRune(st.prev))
                         THEN 8 ELSE 0)
                      + (IF st.last + 1 = st.runeIdx THEN 6 ELSE 0),
                   caseSensitive /\ st.qi < Len(queryRaw) /\ rawRune = queryRaw[st.qi + 1],
                   queryLower)
          EXCEPT !.prev = lowerRuneFast(rawRune)]
    ELSE [st EXCEPT !.runeIdx = st.runeIdx + 1, !.prev = lowerRuneFast(rawRune),
                    !.hasPrev = TRUE]

\* fuzzyScore's loop over text[lo..hi], rune by rune from the left; the range
\* is halved so that the depth of the evaluation grows with the logarithm of
\* the length.
RECURSIVE fuzzyLoop(_, _, _, _, _, _, _)
fuzzyLoop(st, text, lo, hi, queryRaw, queryLower, caseSensitive) ==
    IF lo > hi THEN st
    ELSE IF lo = hi THEN fuzzyStep(st, text[lo], queryRaw, queryLower, caseSensitive)
    ELSE Bind(fuzzyLoop(st, text, lo, (lo + hi) \div 2, queryRaw, queryLower, caseSensitive),
              LAMBDA half : fuzzyLoop(half, text, (lo + hi) \div 2 + 1, hi,
                                      queryRaw, queryLower, caseSensitive))

\* The adjustments after the loop: text length, case matches, span.
fuzzyAdjusted(score, runeIdx, caseMatches, queryLowerLen) ==
    score
    - (IF runeIdx > queryLowerLen THEN runeIdx - queryLowerLen ELSE 0)
    + (IF runeIdx < 40 THEN 40 - runeIdx ELSE 0)
    + (IF caseMatches > 0 THEN caseMatches * 3 ELSE 0)

fuzzySpanned(score, span, queryLen) ==
    [score |-> IF span > 0 /\ span = queryLen THEN score + 12
               ELSE IF span > 0 /\ span > queryLen THEN score - (span - queryLen) * 2
               ELSE score,
     span |-> span,
     ok |-> TRUE]

fuzzyFinish(st, queryLower, queryLen) ==
    IF skipLeadingSpaces(queryLower, st.qi) # Len(queryLower)
    THEN [score |-> 0, span |-> 0, ok |-> FALSE]
    ELSE fuzzySpanned(fuzzyAdjusted(st.score, st.runeIdx, st.caseMatches, Len(queryLower)),
                      IF st.first >= 0 THEN st.last - st.first + 1 ELSE 0,
                      queryLen)

fuzzyScore(text, queryRaw, queryLower, caseSensitive) ==
    IF \/ Len(queryLower) = 0
       \/ nonSpaceRuneCount(queryLower) = 0
       \/ skipLeadingSpaces(queryLower, 0) = Len(queryLower)
    THEN [score |-> 0, span |-> 0, ok |-> TRUE]
    ELSE fuzzyFinish(fuzzyLoop([qi |-> skipLeadingSpaces(queryLower, 0), last |-> -2,
                                first |-> -1, score |-> 0, runeIdx |-> 0, prev |-> 0,
                                hasPrev |-> FALSE, caseMatches |-> 0],
                               text, 1, Len(text), queryRaw, queryLower, caseSensitive),
                     queryLower, nonSpaceRuneCount(queryLower))

\* ------------------------------------------------------------------------
\* semantic.go
\* ------------------------------------------------------------------------

semanticTypeDeclScore == 460
semanticConstructorScore == 410
semanticFunctionScore == 340
semanticMethodScore == 300
semanticConstScore == 260
semanticModuleScore == 220
semanticFieldScore == 170
semanticLocalScore == 110
semanticParamScore == 80
semanticVisibilityPublic == 35
semanticVisibilityInternal == 20
semanticVisibilityPrivate == -15

\* The words semantic.go compares tokens with, as code points.
KwPub == Runes("pub")
KwFunc == Runes("func")
KwDef == Runes("def")
KwFn == Runes("fn")
KwConstructor == Runes("constructor")
ConstructorNames == {Runes("constructor"), Runes("__init__"), Runes("new")}
ConstructorPrefixes ==
    {Runes("new"), Runes("create"), Runes("make"), Runes("build"), Runes("init")}
DefSelfMarkers == {Runes("(self"), Runes("(cls")}
FnSelfMarkers == {Runes("&self"), Runes(" self")}
TypeKeywords ==
    {Runes("class"), Runes("struct"), Runes("interface"), Runes("enum"), Runes("trait"),
     Runes("protocol"), Runes("record"), Runes("type")}
FunctionKeywords == {Runes("func"), Runes("function"), Runes("def"), Runes("fn"), Runes("fun")}
ConstKeywords == {Runes("const"), Runes("static")}
ModuleKeywords ==
    {Runes("namespace"), Runes("module"), Runes("mod"), Runes("package"), Runes("impl"),
     Runes("extension")}
FieldKeywords == {Runes("field"), Runes("property")}
LocalKeywords == {Runes("let"), Runes("var"), Runes("val")}
ParamKeywords == {Runes("param"), Runes("parameter")}

IsTokenByte(b) == (b >= 97 /\ b <= 122) \/ (b >= 48 /\ b <= 57) \/ b = UNDERSCORE

RECURSIVE TokenLen(_, _)
TokenLen(s, i) == IF i < Len(s) /\ IsTokenByte(s[i + 1]) THEN TokenLen(s, i + 1) ELSE i

leadingTokenOf(s, i) ==
    IF s = <<>> THEN [token |-> <<>>, tail |-> <<>>]
    ELSE IF i = 0 THEN [token |-> <<>>, tail |-> s]
    ELSE [token |-> SubSeq(s, 1, i), tail |-> SubSeq(s, i + 1, Len(s))]

leadingToken(s0) ==
    Bind(TrimBlankLeft(s0), LAMBDA s : leadingTokenOf(s, TokenLen(s, 0)))

trimModifierRest(token, rest, end) ==
    IF token = KwPub /\ HasPrefix(rest, <<LPAREN>>) /\ end >= 0
    THEN TrimBlankLeft(SubSeq(rest, end + 2, Len(rest)))
    ELSE TrimBlankLeft(rest)

trimModifierTail(token, tail) ==
    Bind(TrimBlankLeft(tail), LAMBDA rest : trimModifierRest(token, rest, IndexByte(rest, RPAREN)))

PublicModifiers == {Runes("export"), Runes("public"), Runes("pub")}
InternalModifiers == {Runes("protected"), Runes("internal")}
PrivateModifiers == {Runes("private")}
NeutralModifiers ==
    {Runes("default"), Runes("async"), Runes("abstract"), Runes("final"), Runes("sealed"),
     Runes("partial"), Runes("static"), Runes("inline"), Runes("open"), Runes("virtual"),
     Runes("override"), Runes("readonly"), Runes("extern"), Runes("unsafe")}

RECURSIVE classifyLoop(_, _)
classifyToken(token, tail, visibility) ==
    IF token = <<>> THEN [keyword |-> <<>>, rest |-> <<>>, visibility |-> visibility]
    ELSE IF token \in PublicModifiers
    THEN classifyLoop(trimModifierTail(token, tail),
                      IF visibility < semanticVisibilityPublic
                      THEN semanticVisibilityPublic ELSE visibility)
    ELSE IF token \in InternalModifiers
    THEN classifyLoop(trimModifierTail(token, tail),
                      IF visibility < semanticVisibilityInternal
                      THEN semanticVisibilityInternal ELSE visibility)
    ELSE IF token \in PrivateModifiers
    THEN classifyLoop(trimModifierTail(token, tail),
                      IF visibility = 0 THEN semanticVisibilityPrivate ELSE visibility)
    ELSE IF token \in NeutralModifiers
    THEN classifyLoop(trimModifierTail(token, tail), visibility)
    ELSE [keyword |-> token, rest |-> TrimBlankLeft(tail), visibility |-> visibility]

\* The loop of classifyDeclaration; classifyToken is its body.
classifyLoop(remaining0, visibility) ==
    Bind(remaining0, LAMBDA remaining :
        IF remaining = <<>> THEN [keyword |-> <<>>, rest |-> <<>>, visibility |-> visibility]
        ELSE Bind(leadingToken(remaining),
                  LAMBDA lt : classifyToken(lt.token, lt.tail, visibility)))

classifyDeclaration(lower) == classifyLoop(TrimBlankLeft(lower), 0)

hasSemanticPrefix(name, prefix) == Len(name) > Len(prefix) /\ HasPrefix(name, prefix)

isConstructorName(name) ==
    /\ name # <<>>
    /\ \/ name \in ConstructorNames
       \/ \E prefix \in ConstructorPrefixes : hasSemanticPrefix(name, prefix)

functionNameOf(keyword, body, isMethod) ==
    Bind(leadingToken(body), LAMBDA lt :
    Bind(TrimBlankLeft(lt.tail), LAMBDA after :
        [name |-> lt.token,
         isMethod |-> \/ isMethod
                      \/ /\ keyword = KwDef
                         /\ \E marker \in DefSelfMarkers : Contains(after, marker)
                      \/ /\ keyword = KwFn
                         /\ \E marker \in FnSelfMarkers : Contains(after, marker)]))

functionNameAndMethod(keyword, rest) ==
    Bind(TrimBlankLeft(rest), LAMBDA body :
        IF keyword = KwFunc /\ HasPrefix(body, <<LPAREN>>)
        THEN functionNameOf(keyword,
                            IF IndexByte(body, RPAREN) >= 0
                            THEN TrimBlankLeft(SubSeq(body, IndexByte(body, RPAREN) + 2,
                                                      Len(body)))
                            ELSE body,
                            TRUE)
        ELSE functionNameOf(keyword, body, FALSE))

semanticFunctionLikeScore(keyword, rest) ==
    Bind(functionNameAndMethod(keyword, rest), LAMBDA nm :
        IF isConstructorName(nm.name) THEN semanticConstructorScore
        ELSE IF nm.isMethod THEN semanticMethodScore
        ELSE semanticFunctionScore)

semanticScoreForDeclaration(keyword, rest) ==
    IF keyword \in TypeKeywords
    THEN semanticTypeDeclScore
    ELSE IF keyword = KwConstructor THEN semanticConstructorScore
    ELSE IF keyword \in FunctionKeywords
    THEN semanticFunctionLikeScore(keyword, rest)
    ELSE IF keyword \in ConstKeywords THEN semanticConstScore
    ELSE IF keyword \in ModuleKeywords
    THEN semanticModuleScore
    ELSE IF keyword \in FieldKeywords THEN semanticFieldScore
    ELSE IF keyword \in LocalKeywords THEN semanticLocalScore
    ELSE IF keyword \in ParamKeywords THEN semanticParamScore
    ELSE 0

\* computeSemanticScore without the visibility bias.
computeSemanticScoreBare(text) ==
    Bind(classifyDeclaration(LowerRunes(TrimSpace(text))), LAMBDA decl :
        semanticScoreForDeclaration(decl.keyword, decl.rest))

computeSemanticScore(text) ==
    Bind(LowerRunes(TrimSpace(text)), LAMBDA lower :
        IF lower = <<>> THEN 0
        ELSE Bind(classifyDeclaration(lower), LAMBDA decl :
            IF decl.keyword = <<>> THEN decl.visibility
            ELSE Bind(semanticScoreForDeclaration(decl.keyword, decl.rest), LAMBDA base :
                IF base = 0 THEN decl.visibility ELSE base + decl.visibility)))

candidateSemanticScore(cand) ==
    IF cand.SemanticScore # 0 THEN cand.SemanticScore ELSE computeSemanticScore(cand.Text)

\* ------------------------------------------------------------------------
\* key.go
\* ------------------------------------------------------------------------

\* filepath.Base on a slash-separated path.
RECURSIVE TrimSlashRight(_)
TrimSlashRight(s) ==
    IF Len(s) > 0 /\ s[Len(s)] = SLASH THEN TrimSlashRight(SubSeq(s, 1, Len(s) - 1)) ELSE s

PathBase(path) ==
    LET p == TrimSlashRight(path)
        cut == LastIndexByte(p, SLASH)
    IN  IF path = <<>> THEN <<DOT>>
        ELSE IF p = <<>> THEN <<SLASH>>
        ELSE SubSeq(p, cut + 2, Len(p))

\* filepath.Ext of a base name: from its last dot on, or empty.
PathExt(base) ==
    LET dot == LastIndexByte(base, DOT)
    IN  IF dot < 0 THEN <<>> ELSE SubSeq(base, dot + 1, Len(base))

fileBaseWithoutExt(path) ==
    LET base == PathBase(path)
    IN  SubSeq(base, 1, Len(base) - Len(PathExt(base)))

\* ------------------------------------------------------------------------
\* filter.go
\* ------------------------------------------------------------------------

\* A Go slice of FilteredCandidate: nil and empty are different values.
NilSlice == [isNil |-> TRUE, items |-> <<>>]
Slice(items) == [isNil |-> FALSE, items |-> items]

filterParallelThreshold == 20000
filterMinChunkSize == 4096

\* A rejection whose span limit is ten times the query length.
rejectLooseWiderSpan(score, span, queryLen) ==
    IF queryLen <= 1 \/ span <= 0 THEN FALSE
    ELSE IF span <= queryLen * 10 THEN FALSE
    ELSE score < queryLen * 4

rejectLooseFuzzyMatch(score, span, queryLen) ==
    IF queryLen <= 1 \/ span <= 0 THEN FALSE
    ELSE IF span <= queryLen * 5 THEN FALSE
    ELSE score < queryLen * 4

\* strings.EqualFold on ASCII strings.
EqualFold(a, b) == LowerRunes(a) = LowerRunes(b)

\* A filename test that compares the key and the base name exactly.
keyEqualsFileBase(cand) ==
    LET base == fileBaseWithoutExt(cand.File)
    IN  base # <<>> /\ cand.Key # <<>> /\ base = cand.Key

keyLooksLikeFilename(cand) ==
    LET base == fileBaseWithoutExt(cand.File)
    IN  base # <<>> /\ cand.Key # <<>> /\ EqualFold(base, cand.Key)

maxInt32(a, b) == IF a > b THEN a ELSE b

\* scoreCandidate after the three fuzzyScore calls and the loose-match checks.
\* The composition with the semantic weight added at the key step, before
\* the text and the path are compared.
composeScoreSemanticAtKey(cand, index, key, text, path, keyOK, textOK, pathOK) ==
    IF ~keyOK /\ ~textOK /\ ~pathOK
    THEN [ok |-> FALSE, item |-> [Index |-> 0, Score |-> 0, OpenLine |-> 0, OpenCol |-> 0]]
    ELSE [ok |-> TRUE,
          item |->
            [Index |-> index,
             Score |->
                maxInt32(maxInt32(maxInt32(-1048576,
                                           IF keyOK
                                           THEN 3000 + key.score * 3 + candidateSemanticScore(cand)
                                           ELSE -1048576),
                                  IF textOK THEN 1800 + text.score * 2 - 60 ELSE -1048576),
                         IF pathOK THEN 1200 + path.score - 120 ELSE -1048576)
                + (IF keyOK /\ textOK THEN 80 ELSE 0),
             OpenLine |-> IF pathOK /\ ~textOK /\ (~keyOK \/ keyLooksLikeFilename(cand))
                          THEN 1 ELSE 0,
             OpenCol |-> IF pathOK /\ ~textOK /\ (~keyOK \/ keyLooksLikeFilename(cand))
                         THEN 1 ELSE 0]]

composeScore(cand, index, key, text, path, keyOK, textOK, pathOK) ==
    IF ~keyOK /\ ~textOK /\ ~pathOK
    THEN [ok |-> FALSE, item |-> [Index |-> 0, Score |-> 0, OpenLine |-> 0, OpenCol |-> 0]]
    ELSE [ok |-> TRUE,
          item |->
            [Index |-> index,
             Score |->
                maxInt32(maxInt32(maxInt32(-1048576,
                                           IF keyOK THEN 3000 + key.score * 3 ELSE -1048576),
                                  IF textOK THEN 1800 + text.score * 2 - 60 ELSE -1048576),
                         IF pathOK THEN 1200 + path.score - 120 ELSE -1048576)
                + (IF keyOK THEN candidateSemanticScore(cand) ELSE 0)
                + (IF keyOK /\ textOK THEN 80 ELSE 0),
             OpenLine |-> IF pathOK /\ ~textOK /\ (~keyOK \/ keyLooksLikeFilename(cand))
                          THEN 1 ELSE 0,
             OpenCol |-> IF pathOK /\ ~textOK /\ (~keyOK \/ keyLooksLikeFilename(cand))
                         THEN 1 ELSE 0]]

scoreChannels(cand, index, key, text, path, queryLen) ==
    composeScore(cand, index, key, text, path,
                 key.ok,
                 text.ok /\ ~rejectLooseFuzzyMatch(text.score, text.span, queryLen),
                 path.ok /\ ~rejectLooseFuzzyMatch(path.score, path.span, queryLen))

scoreCandidate(cand, index, qRaw, qLower, caseSensitive) ==
    Bind(fuzzyScore(cand.Key, qRaw, qLower, caseSensitive), LAMBDA key :
    Bind(fuzzyScore(cand.Text, qRaw, qLower, caseSensitive), LAMBDA text :
    Bind(fuzzyScore(cand.File, qRaw, qLower, caseSensitive), LAMBDA path :
        scoreChannels(cand, index, key, text, path, nonSpaceRuneCount(qLower)))))

\* appendScoredRange: the entries appended for i in start..end-1, over the
\* candidates themselves (subset nil) or over the entries of subset;
\* appendScored is one iteration, for the candidate index idx.
appendScored(acc, cands, idx, qRaw, qLower, caseSensitive) ==
    IF idx < 0 \/ idx >= Len(cands) THEN acc
    ELSE Bind(scoreCandidate(cands[idx + 1], idx, qRaw, qLower, caseSensitive),
              LAMBDA scored : IF scored.ok THEN Append(acc, scored.item) ELSE acc)

RECURSIVE appendScoredRange(_, _, _, _, _, _, _, _)
appendScoredRange(acc, cands, subset, start, end, qRaw, qLower, caseSensitive) ==
    IF start >= end THEN acc
    ELSE Bind(appendScored(acc, cands,
                           IF subset.isNil THEN start ELSE subset.items[start + 1].Index,
                           qRaw, qLower, caseSensitive),
              LAMBDA next : appendScoredRange(next, cands, subset, start + 1, end,
                                              qRaw, qLower, caseSensitive))

filterWorkerCount(n) ==
    LET maxUseful == n \div settings.minChunk
    IN  IF n < settings.threshold THEN 1
        ELSE IF settings.procs < 2 THEN 1
        ELSE IF maxUseful < 2 THEN 1
        ELSE IF settings.procs > maxUseful THEN maxUseful
        ELSE settings.procs

\* A chunk end that leaves out the chunk's last entry.
chunkEndExclusive(worker, n, workers) == ((worker + 1) * n) \div workers - 1

\* The chunk of worker `worker` in filterCandidatesParallelChunks.
chunkStart(worker, n, workers) == (worker * n) \div workers
chunkEnd(worker, n, workers) == ((worker + 1) * n) \div workers

RECURSIVE flattenFilteredParts(_, _)
flattenFilteredParts(parts, slot) ==
    IF slot >= Len(parts) THEN <<>>
    ELSE parts[slot + 1] \o flattenFilteredParts(parts, slot + 1)

\* A comparison that stops at the key.
lessWithoutID(cands, left, right) ==
    LET leftCand == cands[left.Index + 1]
        rightCand == cands[right.Index + 1]
    IN  IF left.Score # right.Score THEN left.Score > right.Score
        ELSE StringLess(leftCand.Key, rightCand.Key)

lessFilteredCandidate(cands, left, right) ==
    LET leftCand == cands[left.Index + 1]
        rightCand == cands[right.Index + 1]
    IN  IF left.Score # right.Score THEN left.Score > right.Score
        ELSE IF leftCand.Key # rightCand.Key THEN StringLess(leftCand.Key, rightCand.Key)
        ELSE leftCand.ID < rightCand.ID

\* sort.Slice is not stable: it may return any arrangement of the entries at
\* positions S in which no entry is "less" than one placed before it.
RECURSIVE SortOutcomes(_, _, _)
SortOutcomes(cands, items, S) ==
    IF S = {} THEN {<<>>}
    ELSE UNION {{<<items[m]>> \o t : t \in SortOutcomes(cands, items, S \ {m})} :
                m \in {m \in S : \A e \in S : ~lessFilteredCandidate(cands, items[e], items[m])}}

sortFilteredCandidates(cands, items) == SortOutcomes(cands, items, 1..Len(items))

\* A merge that appends the right run to the left run.
MergeByAppending(cands, left, right) == Slice(left.items \o right.items)

RECURSIVE mergeLoop(_, _, _, _, _, _)
mergeLoop(cands, left, right, i, j, acc) ==
    IF i < Len(left) /\ j < Len(right)
    THEN IF lessFilteredCandidate(cands, left[i + 1], right[j + 1])
         THEN mergeLoop(cands, left, right, i + 1, j, Append(acc, left[i + 1]))
         ELSE mergeLoop(cands, left, right, i, j + 1, Append(acc, right[j + 1]))
    ELSE acc \o SubSeq(left, i + 1, Len(left)) \o SubSeq(right, j + 1, Len(right))

MergeFilteredCandidates(cands, left, right) ==
    IF Len(left.items) = 0 THEN right
    ELSE IF Len(right.items) = 0 THEN left
    ELSE Slice(mergeLoop(cands, left.items, right.items, 0, 0, <<>>))

\* ------------------------------------------------------------------------
\* The ranker's inputs
\* ------------------------------------------------------------------------

MaxCands == 2
MaxProcs == 2

\* A candidate as emitMatch builds it (the id is its position in the vector).
MakeCandidate(file, key, text) ==
    [File |-> Runes(file), Key |-> Runes(key), Text |-> Runes(text),
     SemanticScore |-> computeSemanticScore(Runes(text))]

CandidatePool ==
    {MakeCandidate("z.go", "zz", "zazzzzzzzzzzzzzzzzbc"),
     MakeCandidate("ab/c.go", "kk", "let kk"),
     MakeCandidate("ab.go", "Ab", "x = 1"),
     MakeCandidate("m.go", "abc", "func abc()"),
     MakeCandidate("m.go", "abd", "func abd()"),
     MakeCandidate("k.go", "zazzzzzzzzzzzzzzzzzb", "var zazzzzzzzzzzzzzzzzzb")}

QueryPool == {Runes(""), Runes(" "), Runes("ab"), Runes("abc"), Runes(" a b")}

WithIDs(list) ==
    [i \in 1..Len(list) |->
        [ID |-> i, File |-> list[i].File, Key |-> list[i].Key, Text |-> list[i].Text,
         SemanticScore |-> list[i].SemanticScore]]

CandidateLists ==
    UNION {{WithIDs(l) : l \in [1..n -> CandidatePool]} : n \in 0..MaxCands}

\* The package variables as shipped, and as the tests force parallelism on.
SettingsPool ==
    {[threshold |-> filterParallelThreshold, minChunk |-> filterMinChunkSize,
      procs |-> MaxProcs]}
    \cup {[threshold |-> 1, minChunk |-> 1, procs |-> p] : p \in 2..MaxProcs}

\* ------------------------------------------------------------------------
\* The ranker's calls: the full filter of the query, and then either the full
\* filter of a proper prefix followed by the subset filter of that result, or
\* the two range filters at a split followed by their merge.
\* ------------------------------------------------------------------------

NoJob ==
    [op |-> "none", workers |-> 0, n |-> 0, offset |-> 0, subset |-> NilSlice,
     qRaw |-> <<>>, qLower |-> <<>>, parts |-> <<>>, finished |-> {}]

NextCall(op) ==
    CASE op = "full" -> "branch"
      [] op = "prefix" -> "subset"
      [] op = "subset" -> "refined"
      [] op = "left" -> "right"
      [] op = "right" -> "merge"
      [] op = "merge" -> "merged"

\* The call returns `result`; `base` is res with the call's arguments noted.
Return(op, base, result) ==
    /\ res' = [base EXCEPT ![op] = result]
    /\ fpc' = NextCall(op)
    /\ job' = NoJob

\* The scoring of n entries starting at `offset` (of the candidates, or of
\* subset), serially or by the workers of filterCandidatesParallelChunks.
ScoreAndSort(op, base, subset, offset, n, qRaw, qLower) ==
    \E workers \in {filterWorkerCount(n)} :
        IF workers <= 1
        THEN \E scored \in {appendScoredRange(<<>>, candidates, subset, offset, offset + n,
                                              qRaw, qLower, Len(qRaw) = Len(qLower))} :
             \E sorted \in sortFilteredCandidates(candidates, scored) :
                Return(op, base, Slice(sorted))
        ELSE /\ job' = [op |-> op, workers |-> workers, n |-> n, offset |-> offset,
                        subset |-> subset, qRaw |-> qRaw, qLower |-> qLower,
                        parts |-> [slot \in 1..workers |-> <<>>], finished |-> {}]
             /\ res' = base
             /\ UNCHANGED fpc

filterCandidatesCore(op, base, subset, qRaw, qLower) ==
    IF Len(qLower) = 0
    THEN Return(op, base, Slice([i \in 1..Len(candidates) |->
                             [Index |-> i - 1, Score |-> 0, OpenLine |-> 0, OpenCol |-> 0]]))
    ELSE IF ~subset.isNil /\ Len(subset.items) = 0
    THEN Return(op, base, NilSlice)
    ELSE ScoreAndSort(op, base, subset, 0,
                      IF subset.isNil THEN Len(candidates) ELSE Len(subset.items),
                      qRaw, qLower)

FilterCandidatesRangeWithQueryRunes(op, base, start0, end0, qRaw, qLower) ==
    LET start == IF start0 < 0 THEN 0 ELSE start0
        end == IF end0 > Len(candidates) THEN Len(candidates) ELSE end0
    IN  IF start >= end
        THEN Return(op, base, NilSlice)
        ELSE ScoreAndSort(op, base, NilSlice, start, end - start, qRaw, qLower)

Idle(op) == fpc = op /\ job = NoJob

\* FilterCandidates(candidates, query)
FilterCandidates ==
    /\ Idle("full")
    /\ \E q \in {TrimRunes(query)} :
          filterCandidatesCore("full", res, NilSlice, q, LowerRunes(q))
    /\ UNCHANGED <<candidates, query, settings, outsideFilter>>

\* FilterCandidatesWithQueryRunes for a proper prefix of the query
FilterPrefix ==
    /\ Idle("branch")
    /\ \E q \in {TrimRunes(query)} : \E k \in 0..(Len(q) - 1) :
          filterCandidatesCore("prefix", [res EXCEPT !.prefixLen = k], NilSlice,
                               SubSeq(q, 1, k), LowerRunes(SubSeq(q, 1, k)))
    /\ UNCHANGED <<candidates, query, settings, outsideFilter>>

\* FilterCandidatesSubsetWithQueryRunes over the prefix's result
FilterSubset ==
    /\ Idle("subset")
    /\ \E q \in {TrimRunes(query)} :
          filterCandidatesCore("subset", res, res.prefix, q, LowerRunes(q))
    /\ UNCHANGED <<candidates, query, settings, outsideFilter>>

\* FilterCandidatesRangeWithQueryRunes(candidates, 0, m, ...)
FilterRangeLeft ==
    /\ Idle("branch")
    /\ \E q \in {TrimRunes(query)} : \E m \in 0..Len(candidates) :
          FilterCandidatesRangeWithQueryRunes("left", [res EXCEPT !.split = m], 0, m,
                                              q, LowerRunes(q))
    /\ UNCHANGED <<candidates, query, settings, outsideFilter>>

\* FilterCandidatesRangeWithQueryRunes(candidates, m, len(candidates), ...)
FilterRangeRight ==
    /\ Idle("right")
    /\ \E q \in {TrimRunes(query)} :
          FilterCandidatesRangeWithQueryRunes("right", res, res.split, Len(candidates),
                                              q, LowerRunes(q))
    /\ UNCHANGED <<candidates, query, settings, outsideFilter>>

Merge ==
    /\ Idle("merge")
    /\ Return("merge", res, MergeFilteredCandidates(candidates, res.left, res.right))
    /\ UNCHANGED <<candidates, query, settings, outsideFilter>>

\* One worker goroutine of filterCandidatesParallelChunks runs its chunk and
\* stores it in its own slot.
WorkerRun(slot) ==
    /\ job # NoJob
    /\ slot \in 0..(job.workers - 1)
    /\ slot \notin job.finished
    /\ job' = [job EXCEPT
                 !.parts[slot + 1] =
                     appendScoredRange(<<>>, candidates, job.subset,
                                       job.offset + chunkStart(slot, job.n, job.workers),
                                       job.offset + chunkEnd(slot, job.n, job.workers),
                                       job.qRaw, job.qLower,
                                       Len(job.qRaw) = Len(job.qLower)),
                 !.finished = job.finished \cup {slot}]
    /\ UNCHANGED <<candidates, query, settings, fpc, res, outsideFilter>>

\* wg.Wait() returns; the parts are flattened in slot order and sorted.
JoinWorkers ==
    /\ job # NoJob
    /\ job.finished = 0..(job.workers - 1)
    /\ \E flat \in {flattenFilteredParts(job.parts, 0)} :
       \E sorted \in sortFilteredCandidates(candidates, flat) :
          Return(job.op, res, Slice(sorted))
    /\ UNCHANGED <<candidates, query, settings, outsideFilter>>

NoResults ==
    [full |-> NilSlice, prefix |-> NilSlice, subset |-> NilSlice, left |-> NilSlice,
     right |-> NilSlice, merge |-> NilSlice, prefixLen |-> 0, split |-> 0]

FilterInit ==
    /\ candidates \in CandidateLists
    /\ query \in QueryPool
    /\ settings \in SettingsPool
    /\ fpc = "full"
    /\ job = NoJob
    /\ res = NoResults

ParseIdle == raw = <<>> /\ parsed = <<>>

\* No runRGPass has returned.
NoReturn == [cause |-> "none", failed |-> FALSE, code |-> 0, stderr |-> <<>>, msg |-> <<>>]

ProducerIdle ==
    /\ pattern = <<>> /\ ppc = "idle" /\ err = "nil" /\ pass = 0 /\ scanned = 0
    /\ rgret = NoReturn
    /\ seen = {} /\ id = 0 /\ pending = <<>>
    /\ out = <<>> /\ outClosed = FALSE /\ done = <<>> /\ doneClosed = FALSE
    /\ cancelled = FALSE /\ sent = <<>> /\ dropped = 0 /\ received = <<>>
    /\ doneSent = <<>>

\* A ProducerConfig with every field at its zero value, and a path with no
\* file at it.
NoConfig ==
    [Root |-> <<>>, Pattern |-> <<>>, NoIgnore |-> FALSE, ExcludeTests |-> FALSE,
     Excludes |-> NilSlice]

NoFile ==
    [kind |-> "absent", bytes |-> [f \in {} |-> 0],
     origin |-> [version |-> 0, cfg |-> NoConfig, cands |-> NilSlice]]

\* No cache file, no save running, no load made.
CacheIdle ==
    /\ cacheFile = NoFile /\ tmpFile = NoFile /\ spc = "idle"
    /\ saves = <<>> /\ loaded = <<>>

\* The model newModel returns, and no tick in progress.
NoStatus == <<"", 0>>

\* filterDue is kept as untilDue, the time from now to filterDue: -1 once
\* the clock is past it (as it is past the zero time of a new model).
newModel ==
    [input |-> <<>>, queryRaw |-> <<>>, queryRunes |-> <<>>,
     candidates |-> <<>>, filtered |-> NilSlice,
     cursor |-> 0, offset |-> 0, page |-> 1, untilDue |-> -1,
     producerOut |-> "open", producerDone |-> "open", scanDone |-> FALSE,
     rebuildFromScan |-> FALSE, scanCandidates |-> <<>>,
     filterPending |-> FALSE, resetSelectionOnFilter |-> FALSE,
     lastFilterQueryRunes |-> <<>>, lastFilterCandidateN |-> 0,
     status |-> NoStatus, errMsg |-> "", saving |-> <<>>]

NoTick == [pc |-> "idle", drained |-> 0, needFilter |-> FALSE]

UiIdle == model = newModel /\ tick = NoTick

\* No highlight request at hand, and no result.
NoHighlight == [made |-> FALSE]

NoSpans == [done |-> FALSE]

SpansIdle == hin = NoHighlight /\ hout = NoSpans

\* No highlighter built.
NoOp == [op |-> "none", req |-> 0, hit |-> FALSE, evicted |-> {}]

LruIdle ==
    /\ hcfg = [CacheSize |-> 0, root |-> <<>>, defaultMode |-> "synthetic"]
    /\ cache = [capacity |-> 1, ll |-> <<>>, items |-> {}]
    /\ touched = <<>>
    /\ lastOp = NoOp

\* No queue, no caller and no worker.
QueueIdle ==
    /\ tasks = <<>>
    /\ hpending = {}
    /\ callers = <<>>
    /\ hworkers = <<>>
    /\ fileLines = {}
    /\ reads = <<>>

\* No declaration line at hand.
NoDecl == [keyword |-> <<>>, rest |-> <<>>]

SemanticIdle == sdecl = NoDecl /\ sscores = {}

\* No query edit and no applyFilter so far.
NoHistory ==
    [sinceKey |-> 0 - 1, resized |-> FALSE, swapped |-> FALSE, strategy |-> "idle",
     wanted |-> 0, reset |-> FALSE]

EditIdle == hist = NoHistory

\* No cache directory and no process.
NoLoad == [made |-> FALSE, blocks |-> <<>>]

FsIdle ==
    /\ inodes = <<>>
    /\ links = [final |-> 0, tmp |-> 0]
    /\ savers = <<>>
    /\ lastLoad = NoLoad

\* Nothing emitted yet.
PassIdle == sentPass = <<>>

Init == FilterInit /\ ParseIdle /\ ProducerIdle /\ CacheIdle /\ UiIdle /\ SpansIdle /\ LruIdle /\ QueueIdle /\ SemanticIdle /\ EditIdle /\ FsIdle /\ PassIdle

Next ==
    \/ FilterCandidates
    \/ FilterPrefix
    \/ FilterSubset
    \/ FilterRangeLeft
    \/ FilterRangeRight
    \/ Merge
    \/ \E slot \in 0..(MaxProcs - 1) : WorkerRun(slot)
    \/ JoinWorkers

Spec == Init /\ [][Next]_vars

\* ------------------------------------------------------------------------
\* Properties of the ranker
\* ------------------------------------------------------------------------

\* The call `op` has just returned: res[op] holds its result and the next
\* call has not started.
Returned(op) == job = NoJob /\ fpc = NextCall(op)

\* The query runes the call `op` was given.
QueryOf(op) ==
    IF op = "prefix" THEN SubSeq(TrimRunes(query), 1, res.prefixLen) ELSE TrimRunes(query)

Calls == {"full", "prefix", "subset", "left", "right", "merge"}

\* C1: for a non-empty trimmed query and any split point, merging the range
\* filter of the left part with the range filter of the right part gives the
\* same entries, in the same order, as the full filter.
RangeMergeEquivalence ==
    (Returned("merge") /\ Len(TrimRunes(query)) > 0) => res.merge.items = res.full.items

\* C1 witness: both ranges matched something, and the merge interleaved them.
RangeMergeInterleaved ==
    /\ Returned("merge")
    /\ Len(TrimRunes(query)) > 0
    /\ Len(res.left.items) > 0
    /\ Len(res.right.items) > 0
    /\ res.merge.items # res.left.items \o res.right.items

\* C2: filtering the result of a proper prefix of the query with the query
\* gives the same entries as filtering all candidates with the query.
SubsetEquivalence ==
    Returned("subset") => res.subset.items = res.full.items

\* The result of scoring and sorting n entries from `offset` in one goroutine.
SerialOutcomes(subset, offset, n, qRaw) ==
    sortFilteredCandidates(candidates,
        appendScoredRange(<<>>, candidates, subset, offset, offset + n,
                          qRaw, LowerRunes(qRaw), TRUE))

\* C3: whatever the worker count and the order in which the workers finish,
\* a filter call over a non-empty query returns what the serial scan of the
\* same entries returns.
ParallelEquivalence ==
    /\ (Returned("full") /\ Len(QueryOf("full")) > 0) =>
           SerialOutcomes(NilSlice, 0, Len(candidates), QueryOf("full")) = {res.full.items}
    /\ (Returned("prefix") /\ Len(QueryOf("prefix")) > 0) =>
           SerialOutcomes(NilSlice, 0, Len(candidates), QueryOf("prefix")) = {res.prefix.items}
    /\ (Returned("subset") /\ Len(QueryOf("subset")) > 0) =>
           SerialOutcomes(res.prefix, 0, Len(res.prefix.items), QueryOf("subset"))
               = {res.subset.items}
    /\ Returned("left") =>
           SerialOutcomes(NilSlice, 0, res.split, QueryOf("left")) = {res.left.items}
    /\ Returned("right") =>
           SerialOutcomes(NilSlice, res.split, Len(candidates) - res.split, QueryOf("right"))
               = {res.right.items}

\* C3 witness: the full filter ran on two or more workers, and its result
\* puts an entry of a later chunk before an entry of an earlier one.
ParallelReordered ==
    /\ Returned("full")
    /\ Len(QueryOf("full")) > 0
    /\ filterWorkerCount(Len(candidates)) >= 2
    /\ Len(res.full.items) >= 2
    /\ res.full.items[1].Index > res.full.items[2].Index

\* Score descending, then key ascending, then id ascending, strictly.
Ordered(items) ==
    \A i \in 1..(Len(items) - 1) :
        LET a == items[i]
            b == items[i + 1]
            ca == candidates[a.Index + 1]
            cb == candidates[b.Index + 1]
        IN  \/ a.Score > b.Score
            \/ a.Score = b.Score /\ ca.Key # cb.Key /\ StringLess(ca.Key, cb.Key)
            \/ a.Score = b.Score /\ ca.Key = cb.Key /\ ca.ID < cb.ID

\* C4: the result of every call over a non-empty query is ordered by score
\* descending, then key ascending, then id ascending; consecutive entries
\* are strictly ordered, so the sequence is fixed by its entries.
ResultsOrdered ==
    \A op \in Calls :
        (Returned(op) /\ Len(QueryOf(op)) > 0) => Ordered(res[op].items)

\* C4 witness: two consecutive entries with the same score and the same key,
\* which only the id puts in order.
OrderedByID ==
    /\ Returned("full")
    /\ Len(QueryOf("full")) > 0
    /\ \E i \in 1..(Len(res.full.items) - 1) :
          LET a == res.full.items[i]
              b == res.full.items[i + 1]
          IN  /\ a.Score = b.Score
              /\ candidates[a.Index + 1].Key = candidates[b.Index + 1].Key

\* C4, the key tie-break at work: two consecutive entries with the same score
\* and different keys.
OrderedByKey ==
    /\ Returned("full")
    /\ \E i \in 1..(Len(res.full.items) - 1) :
          LET a == res.full.items[i]
              b == res.full.items[i + 1]
          IN  /\ a.Score = b.Score
              /\ candidates[a.Index + 1].Key # candidates[b.Index + 1].Key

\* The query holds no rune other than white space.
Blank(s) == \A i \in 1..Len(s) : IsSpace(s[i])

AllInIndexOrder ==
    [i \in 1..Len(candidates) |-> [Index |-> i - 1, Score |-> 0, OpenLine |-> 0, OpenCol |-> 0]]

\* C5: for an empty or white-space-only query the filter returns every
\* candidate, in index order, with score 0 and open position 0:0.
EmptyQueryReturnsAll ==
    /\ (Returned("full") /\ Blank(query)) => res.full = Slice(AllInIndexOrder)
    /\ (Returned("prefix") /\ res.prefixLen = 0) => res.prefix = Slice(AllInIndexOrder)

\* C5 witness: a query of one space has been filtered over two candidates.
BlankQueryFiltered ==
    /\ Returned("full")
    /\ Len(query) > 0
    /\ Blank(query)
    /\ Len(candidates) >= 2
    /\ Len(res.full.items) = Len(candidates)

\* The channel `runes` matches the query, after the loose-match rejection
\* when `loose` says the channel is subject to it.
ChannelMatched(runes, q, loose) ==
    LET r == fuzzyScore(runes, q, LowerRunes(q), TRUE)
    IN  /\ r.ok
        /\ ~(loose /\ nonSpaceRuneCount(q) > 1 /\ r.span > 5 * nonSpaceRuneCount(q)
                    /\ r.score < 4 * nonSpaceRuneCount(q))

\* The key equals the base name of the file without its extension, case folded.
KeyNamesFile(c) == LowerRunes(c.Key) = LowerRunes(fileBaseWithoutExt(c.File))

\* C6: an entry's open position is 1:1 exactly when the path matched, the
\* text did not, and the key did not match or names the file; otherwise 0:0.
OpenAtHead ==
    (Returned("full") /\ Len(QueryOf("full")) > 0) =>
        \A i \in 1..Len(res.full.items) :
            LET e == res.full.items[i]
                c == candidates[e.Index + 1]
                q == QueryOf("full")
            IN  /\ e.OpenLine \in {0, 1}
                /\ e.OpenCol = e.OpenLine
                /\ e.OpenLine = 1 <=>
                       /\ ChannelMatched(c.File, q, TRUE)
                       /\ ~ChannelMatched(c.Text, q, TRUE)
                       /\ (~ChannelMatched(c.Key, q, FALSE) \/ KeyNamesFile(c))

\* C6 witness: an entry opened at 1:1 whose key matched, in another case
\* than the file's base name.
OpenedAtHeadByFilenameKey ==
    /\ Returned("full")
    /\ Len(QueryOf("full")) > 0
    /\ \E i \in 1..Len(res.full.items) :
          LET e == res.full.items[i]
              c == candidates[e.Index + 1]
          IN  /\ e.OpenLine = 1
              /\ ChannelMatched(c.Key, QueryOf("full"), FALSE)
              /\ c.Key # fileBaseWithoutExt(c.File)

\* The raw match r of a text or path channel is a loose one.
Loose(r, q) ==
    /\ nonSpaceRuneCount(q) > 1
    /\ r.span > 5 * nonSpaceRuneCount(q)
    /\ r.score < 4 * nonSpaceRuneCount(q)

\* C7: a text or path match is discarded exactly when it is loose; a key
\* match is never discarded; a candidate is in the result exactly when a
\* channel matched after that.
LooseRejection ==
    (Returned("full") /\ Len(QueryOf("full")) > 0) =>
        \A i \in 1..Len(candidates) :
            LET q == QueryOf("full")
                key == fuzzyScore(candidates[i].Key, q, LowerRunes(q), TRUE)
                text == fuzzyScore(candidates[i].Text, q, LowerRunes(q), TRUE)
                path == fuzzyScore(candidates[i].File, q, LowerRunes(q), TRUE)
            IN  (\E j \in 1..Len(res.full.items) : res.full.items[j].Index = i - 1)
                    <=> \/ key.ok
                        \/ text.ok /\ ~Loose(text, q)
                        \/ path.ok /\ ~Loose(path, q)

\* C7 witness: a candidate left out although its text matched, loosely, and
\* a candidate kept on a key match that is as loose.
LooseTextRejectedLooseKeyKept ==
    /\ Returned("full")
    /\ Len(QueryOf("full")) > 0
    /\ \E i \in 1..Len(candidates) :
          LET q == QueryOf("full")
              text == fuzzyScore(candidates[i].Text, q, LowerRunes(q), TRUE)
          IN  /\ text.ok
              /\ Loose(text, q)
              /\ \A j \in 1..Len(res.full.items) : res.full.items[j].Index # i - 1
    /\ \E j \in 1..Len(res.full.items) :
          LET q == QueryOf("full")
              c == candidates[res.full.items[j].Index + 1]
              key == fuzzyScore(c.Key, q, LowerRunes(q), TRUE)
              path == fuzzyScore(c.File, q, LowerRunes(q), TRUE)
          IN  key.ok /\ Loose(key, q) /\ ~path.ok

\* The runes of q that are not white space, in order.
NonSpace(q) == SelectSeq(q, LAMBDA r : ~IsSpace(r))

\* q, from its rune `qi` on, is a subsequence of t from position `from` on.
RECURSIVE SubsequenceFrom(_, _, _, _)
SubsequenceFrom(q, qi, t, from) ==
    \/ qi > Len(q)
    \/ \E p \in from..Len(t) : t[p] = q[qi] /\ SubsequenceFrom(q, qi + 1, t, p + 1)

\* C8: a channel matches a query exactly when the lower-cased query, its
\* white space left out, is a subsequence of the case-folded channel text.
FuzzySubsequence ==
    (Returned("full") /\ Len(QueryOf("full")) > 0) =>
        \A i \in 1..Len(candidates) :
            \A t \in {candidates[i].Key, candidates[i].Text, candidates[i].File} :
                fuzzyScore(t, QueryOf("full"), LowerRunes(QueryOf("full")), TRUE).ok
                    <=> SubsequenceFrom(NonSpace(LowerRunes(QueryOf("full"))), 1,
                                        LowerRunes(t), 1)

\* C8 witness: a query with white space inside it matched a channel whose
\* runes are in another case.
FuzzyMatchedAcrossSpace ==
    /\ Returned("full")
    /\ \E k \in 1..Len(QueryOf("full")) : IsSpace(QueryOf("full")[k])
    /\ \E i \in 1..Len(candidates) :
          /\ candidates[i].Key # LowerRunes(candidates[i].Key)
          /\ fuzzyScore(candidates[i].Key, QueryOf("full"), LowerRunes(QueryOf("full")),
                        TRUE).ok

\* ------------------------------------------------------------------------
\* producer.go: the parser of one record of rg's --vimgrep --null output
\* ------------------------------------------------------------------------

\* A Go int (64 bits, two's complement) is four 16-bit limbs, lowest first.
Int64Zero == <<0, 0, 0, 0>>

\* value*10 + digit of parsePositiveIntField, wrapping as Go's int does.
Int64MulAdd10(value, digit) ==
    LET t1 == value[1] * 10 + digit
        t2 == value[2] * 10 + t1 \div 65536
        t3 == value[3] * 10 + t2 \div 65536
        t4 == value[4] * 10 + t3 \div 65536
    IN  <<t1 % 65536, t2 % 65536, t3 % 65536, t4 % 65536>>

\* value <= 0: zero, or the sign bit set.
Int64NotPositive(value) == value = Int64Zero \/ value[4] >= 32768

\* The loop of parsePositiveIntField over raw[:sep], from byte i on.
RECURSIVE parseDigits(_, _, _)
parseDigits(field, i, value) ==
    IF i >= Len(field) THEN [value |-> value, ok |-> TRUE]
    ELSE IF field[i + 1] < 48 \/ field[i + 1] > 57
    THEN [value |-> Int64Zero, ok |-> FALSE]
    ELSE Bind(Int64MulAdd10(value, field[i + 1] - 48),
              LAMBDA v : parseDigits(field, i + 1, v))

NoField == [value |-> Int64Zero, rest |-> <<>>, ok |-> FALSE]

parsedField(field, sep, digits) ==
    IF ~digits.ok \/ Int64NotPositive(digits.value) THEN NoField
    ELSE [value |-> digits.value, rest |-> SubSeq(field, sep + 2, Len(field)), ok |-> TRUE]

parsePositiveIntField(field) ==
    Bind(IndexByte(field, COLON), LAMBDA sep :
        IF sep <= 0 THEN NoField
        ELSE Bind(parseDigits(SubSeq(field, 1, sep), 0, Int64Zero),
                  LAMBDA digits : parsedField(field, sep, digits)))

\* strings.TrimRight(s, "\r")
RECURSIVE TrimCRRight(_)
TrimCRRight(s) ==
    IF Len(s) > 0 /\ s[Len(s)] = CR THEN TrimCRRight(SubSeq(s, 1, Len(s) - 1)) ELSE s

NoRecord ==
    [file |-> <<>>, lineNo |-> Int64Zero, colNo |-> Int64Zero, text |-> <<>>, ok |-> FALSE]

parsedRecord(file, line, col) ==
    IF ~col.ok THEN NoRecord
    ELSE [file |-> file, lineNo |-> line.value, colNo |-> col.value,
          text |-> TrimCRRight(col.rest), ok |-> TRUE]

parseRGVimgrepLine(record) ==
    Bind(IndexByte(record, NUL), LAMBDA nul :
        IF nul <= 0 \/ nul >= Len(record) - 1 THEN NoRecord
        ELSE Bind(parsePositiveIntField(SubSeq(record, nul + 2, Len(record))),
                  LAMBDA line :
                      IF ~line.ok THEN NoRecord
                      ELSE Bind(parsePositiveIntField(line.rest),
                                LAMBDA col : parsedRecord(SubSeq(record, 1, nul), line, col))))

\* The records parsed: every byte string over the bytes that matter to the
\* parser up to MaxRawLen bytes, and records whose fields reach past 2^63.
MaxRawLen == 7

RecordBytes == {NUL, COLON, 48, 49, CR}

ShortRecords == UNION {[1..n -> RecordBytes] : n \in 0..MaxRawLen}

LongFields ==
    {Runes("7"), Runes("9223372036854775807"), Runes("9223372036854775808"),
     Runes("18446744073709551616"), Runes("18446744073709551617")}

LongRecords ==
    {Runes("a.go") \o <<NUL>> \o line \o <<COLON>> \o col \o <<COLON>> \o Runes("x") :
        line \in LongFields, col \in LongFields}

\* The ranker at rest, for the specifications of the other components.
FilterIdle ==
    /\ candidates = <<>>
    /\ query = <<>>
    /\ settings = [threshold |-> filterParallelThreshold, minChunk |-> filterMinChunkSize,
                   procs |-> 1]
    /\ fpc = "idle"
    /\ job = NoJob
    /\ res = NoResults

ParseInit ==
    /\ raw \in ShortRecords \cup LongRecords
    /\ parsed = <<>>
    /\ FilterIdle
    /\ ProducerIdle
    /\ CacheIdle
    /\ UiIdle
    /\ SpansIdle
    /\ LruIdle
    /\ QueueIdle
    /\ SemanticIdle
    /\ EditIdle
    /\ FsIdle
    /\ PassIdle

\* runRGPass hands one scanned record to parseRGVimgrepLine.
ParseLine ==
    /\ parsed = <<>>
    /\ parsed' = <<parseRGVimgrepLine(raw)>>
    /\ UNCHANGED <<raw, outsideParse>>

ParseNext == ParseLine

SpecParse == ParseInit /\ [][ParseNext]_vars

\* ------------------------------------------------------------------------
\* Properties of the parser
\* ------------------------------------------------------------------------

IsDigit(b) == b >= 48 /\ b <= 57

\* A non-empty string of decimal digits that denotes a number above zero.
PositiveField(f) ==
    /\ Len(f) > 0
    /\ \A i \in 1..Len(f) : IsDigit(f[i])
    /\ \E i \in 1..Len(f) : f[i] # 48

RECURSIVE StripZeros(_)
StripZeros(f) == IF Len(f) > 0 /\ f[1] = 48 THEN StripZeros(Tail(f)) ELSE f

\* The quotient and the remainder of a non-negative 64-bit value by ten.
Int64DivMod10(value) ==
    LET c4 == value[4]
        c3 == (c4 % 10) * 65536 + value[3]
        c2 == (c3 % 10) * 65536 + value[2]
        c1 == (c2 % 10) * 65536 + value[1]
    IN  [quot |-> <<c1 \div 10, c2 \div 10, c3 \div 10, c4 \div 10>>, rem |-> c1 % 10]

\* The decimal digits of a non-negative 64-bit value.
RECURSIVE Decimal(_)
Decimal(value) ==
    IF value = Int64Zero THEN <<>>
    ELSE Bind(Int64DivMod10(value), LAMBDA d : Append(Decimal(d.quot), 48 + d.rem))

\* text is rest with every trailing carriage return removed.
TrimmedOfCR(text, rest) ==
    /\ Len(text) <= Len(rest)
    /\ text = SubSeq(rest, 1, Len(text))
    /\ \A i \in (Len(text) + 1)..Len(rest) : rest[i] = CR
    /\ Len(text) > 0 => text[Len(text)] # CR

\* The record has its first NUL at n, after a non-empty path, then a field
\* ending at the colon c1 and a field ending at the colon c2.
RecordShape(record, n, c1, c2) ==
    /\ n > 1
    /\ record[n] = NUL
    /\ \A i \in 1..(n - 1) : record[i] # NUL
    /\ n < c1
    /\ record[c1] = COLON
    /\ PositiveField(SubSeq(record, n + 1, c1 - 1))
    /\ c1 < c2
    /\ record[c2] = COLON
    /\ PositiveField(SubSeq(record, c1 + 1, c2 - 1))

\* The result is what the record of that shape denotes.
RecordValue(result, record, n, c1, c2) ==
    /\ result.file = SubSeq(record, 1, n - 1)
    /\ ~Int64NotPositive(result.lineNo)
    /\ Decimal(result.lineNo) = StripZeros(SubSeq(record, n + 1, c1 - 1))
    /\ ~Int64NotPositive(result.colNo)
    /\ Decimal(result.colNo) = StripZeros(SubSeq(record, c1 + 1, c2 - 1))
    /\ TrimmedOfCR(result.text, SubSeq(record, c2 + 1, Len(record)))

RecordContract(record, result) ==
    /\ result.ok <=>
           \E n \in 1..Len(record) : \E c1 \in (n + 1)..Len(record) :
               \E c2 \in (c1 + 1)..Len(record) : RecordShape(record, n, c1, c2)
    /\ \A n \in 1..Len(record) : \A c1 \in (n + 1)..Len(record) :
           \A c2 \in (c1 + 1)..Len(record) :
               RecordShape(record, n, c1, c2) => RecordValue(result, record, n, c1, c2)

\* C9: parseRGVimgrepLine accepts a record exactly when a non-empty path
\* comes before the first NUL and two colon-terminated fields of decimal
\* digits with a value above zero follow it; it then returns the path, the
\* two numbers the fields denote and the rest without trailing carriage
\* returns.
ParseAcceptsExactlyWellFormed ==
    parsed # <<>> => RecordContract(raw, parsed[1])

\* No field of the record has nineteen digits or more, so that its number
\* is below 2^63.
FieldsFitInt64(record) ==
    \A i \in 1..(Len(record) - 18) : \E j \in i..(i + 18) : ~IsDigit(record[j])

\* C9 within the range of int: the same statement for records whose fields
\* have at most eighteen digits.
ParseAcceptsWellFormedWithinInt64 ==
    (parsed # <<>> /\ FieldsFitInt64(raw)) => RecordContract(raw, parsed[1])

\* C9 witness within the range of int: an accepted record with a colon in
\* its path and a carriage return removed from its text.
ParsedColonPathAndCR ==
    /\ parsed # <<>>
    /\ parsed[1].ok
    /\ \E i \in 1..Len(parsed[1].file) : parsed[1].file[i] = COLON
    /\ Len(raw) > 0
    /\ raw[Len(raw)] = CR

\* ------------------------------------------------------------------------
\* producer.go: StartProducer's goroutine, its two grep passes and channels
\* ------------------------------------------------------------------------

\* filepath.Clean on slash-separated paths.
RECURSIVE SplitPath(_, _, _)
SplitPath(path, i, elem) ==
    IF i > Len(path) THEN <<elem>>
    ELSE IF path[i] = SLASH THEN <<elem>> \o SplitPath(path, i + 1, <<>>)
    ELSE SplitPath(path, i + 1, Append(elem, path[i]))

RECURSIVE cleanElements(_, _, _, _)
cleanElements(elems, i, kept, rooted) ==
    IF i > Len(elems) THEN kept
    ELSE IF elems[i] = <<>> \/ elems[i] = <<DOT>>
    THEN cleanElements(elems, i + 1, kept, rooted)
    ELSE IF elems[i] # <<DOT, DOT>>
    THEN cleanElements(elems, i + 1, Append(kept, elems[i]), rooted)
    ELSE IF Len(kept) > 0 /\ kept[Len(kept)] # <<DOT, DOT>>
    THEN cleanElements(elems, i + 1, SubSeq(kept, 1, Len(kept) - 1), rooted)
    ELSE IF rooted THEN cleanElements(elems, i + 1, kept, rooted)
    ELSE cleanElements(elems, i + 1, Append(kept, elems[i]), rooted)

RECURSIVE JoinPath(_)
JoinPath(elems) ==
    IF Len(elems) = 0 THEN <<>>
    ELSE IF Len(elems) = 1 THEN elems[1]
    ELSE elems[1] \o <<SLASH>> \o JoinPath(Tail(elems))

cleanJoined(rooted, kept) ==
    IF rooted THEN <<SLASH>> \o JoinPath(kept)
    ELSE IF Len(kept) = 0 THEN <<DOT>>
    ELSE JoinPath(kept)

Clean(path) ==
    IF Len(path) = 0 THEN <<DOT>>
    ELSE Bind(cleanElements(SplitPath(path, 1, <<>>), 1, <<>>, path[1] = SLASH),
              LAMBDA kept : cleanJoined(path[1] = SLASH, kept))

\* DefaultRGPattern, the declaration regex, stands as one word.
DefaultRGPattern == Runes("decl")

shouldIncludeConfigPass(pat) == TrimSpace(pat) = DefaultRGPattern

\* The pattern StartProducer searches for.
effectivePattern(pat) == IF TrimSpace(pat) = <<>> THEN DefaultRGPattern ELSE TrimSpace(pat)

\* A lookup that finds no location.
seenNothing(seenSet, loc) == FALSE

\* emitMatch's lookup of the location in the seen map.
seenLocation(seenSet, loc) == loc \in seenSet

\* The candidate emitMatch builds (the key, language and semantic score,
\* which the channel protocol does not read, are left out).
newCandidate(newID, rec) ==
    [ID |-> newID, File |-> Clean(rec.file), Line |-> rec.lineNo, Col |-> rec.colNo,
     Text |-> rec.text]

candidateLocation(rec) == [file |-> Clean(rec.file), line |-> rec.lineNo, col |-> rec.colNo]

\* The buffer of the candidate channel (4096 in the program) and the number
\* of records one grep pass prints, scaled to the model.
OutCap == 2
MaxLines == 2

\* Records of the grep child: the same location as a.go and as ./a.go and
\* with a leading zero, other locations, and a record without NUL.
RgLines ==
    {Runes("a.go") \o <<NUL>> \o Runes("1:1:x"),
     Runes("./a.go") \o <<NUL>> \o Runes("01:1:x y"),
     Runes("a.go") \o <<NUL>> \o Runes("1:2:x"),
     Runes("b/../b.go") \o <<NUL>> \o Runes("1:1:z"),
     Runes("a.go:1:1:x")}

PatternPool == {Runes(""), Runes(" decl "), Runes("todo")}

\* StartProducer has made the channels and started the goroutine.
ProducerStart ==
    /\ pattern \in PatternPool
    /\ ppc = "begin" /\ err = "nil" /\ pass = 0 /\ scanned = 0
    /\ rgret = NoReturn
    /\ seen = {} /\ id = 0 /\ pending = <<>>
    /\ out = <<>> /\ outClosed = FALSE /\ done = <<>> /\ doneClosed = FALSE
    /\ cancelled = FALSE /\ sent = <<>> /\ dropped = 0 /\ received = <<>>
    /\ doneSent = <<>>

ProducerInit ==
    /\ ProducerStart
    /\ FilterIdle
    /\ ParseIdle
    /\ CacheIdle
    /\ UiIdle
    /\ SpansIdle
    /\ LruIdle
    /\ QueueIdle
    /\ SemanticIdle
    /\ EditIdle
    /\ FsIdle
    /\ PassIdle

\* The goroutine starts: the pattern is settled, id and seen are fresh, and
\* runRGPass is entered for the declaration pass.
Begin ==
    /\ ppc = "begin"
    /\ ppc' = "start"
    /\ pass' = 1
    /\ id' = 0
    /\ seen' = {}
    /\ UNCHANGED <<pattern, err, rgret, scanned, pending, out, outClosed, done, doneClosed,
                   cancelled, sent, dropped, received, doneSent,
                   outsideProducer>>

PassError(p) == IF p = 1 THEN "search declarations" ELSE "search config entries"

\* The exit codes of the grep child: matches, no match, failure.
ExitCodes == {0, 1, 2}

\* What the child wrote to its standard error: nothing, blanks, a message.
StderrPool == {<<>>, <<SPACE, 10>>, <<SPACE>> \o Runes("boom") \o <<10>>}

RgFailedText == Runes("rg failed: ")
ExitStatusText == Runes("exit status ")

rgFailed(text) == RgFailedText \o text

\* exitErr.Error() of a child that exited with `code`.
exitStatus(code) == ExitStatusText \o <<48 + code>>

\* The errors runRGPass returns without waiting for an exit code.
startError ==
    [cause |-> "start", failed |-> TRUE, code |-> 0, stderr |-> <<>>, msg |-> Runes("start rg")]
contextError ==
    [cause |-> "ctx", failed |-> TRUE, code |-> 0, stderr |-> <<>>,
     msg |-> Runes("context canceled")]
readError ==
    [cause |-> "read", failed |-> TRUE, code |-> 0, stderr |-> <<>>,
     msg |-> Runes("read rg output")]

\* runRGPass taking every non-zero exit for a failure.
waitResultStrict(code, stderr) ==
    [cause |-> "wait", failed |-> code # 0, code |-> code,
     stderr |-> IF code # 0 THEN stderr ELSE <<>>,
     msg |-> IF code = 0 THEN <<>>
             ELSE IF TrimSpace(stderr) # <<>> THEN rgFailed(TrimSpace(stderr))
             ELSE rgFailed(exitStatus(code))]

\* runRGPass from cmd.Wait() on: nil for exit 0 and exit 1, otherwise the
\* trimmed standard error, or the exit error when that is empty.  The
\* buffer is read on the failing path only, and is kept here for that path.
waitResult(code, stderr) ==
    [cause |-> "wait", failed |-> code \notin {0, 1}, code |-> code,
     stderr |-> IF code \notin {0, 1} THEN stderr ELSE <<>>,
     msg |-> IF code \in {0, 1} THEN <<>>
             ELSE IF TrimSpace(stderr) # <<>> THEN rgFailed(TrimSpace(stderr))
             ELSE rgFailed(exitStatus(code))]

\* runRGPass opens the pipe and starts rg, or returns the error of either.
StartPass ==
    /\ ppc = "start"
    /\ \/ ppc' = "scan" /\ err' = err /\ rgret' = NoReturn
       \/ ppc' = "report" /\ err' = PassError(pass) /\ rgret' = startError
    /\ scanned' = 0
    /\ UNCHANGED <<pattern, pass, seen, id, pending, out, outClosed, done, doneClosed,
                   cancelled, sent, dropped, received, doneSent,
                   outsideProducer>>

\* emitMatch up to its select, for the parsed record rec.
EmitMatch(rec) ==
    \E loc \in {candidateLocation(rec)} :
        IF seenLocation(seen, loc)
        THEN /\ dropped' = dropped + 1
             /\ UNCHANGED <<ppc, seen, id, pending>>
        ELSE /\ seen' = seen \cup {loc}
             /\ id' = id + 1
             /\ pending' = <<newCandidate(id + 1, rec)>>
             /\ ppc' = "send"
             /\ UNCHANGED dropped

\* scanner.Scan() returns a record; it is parsed and, when well formed,
\* handed to emitMatch.
ScanLine ==
    /\ ppc = "scan"
    /\ scanned < MaxLines
    /\ scanned' = scanned + 1
    /\ \E line \in RgLines : \E rec \in {parseRGVimgrepLine(line)} :
          IF rec.ok THEN EmitMatch(rec)
          ELSE UNCHANGED <<ppc, seen, id, pending, dropped>>
    /\ UNCHANGED <<pattern, err, rgret, pass, out, outClosed, done, doneClosed, cancelled, sent,
                   received, doneSent,
                   outsideProducer>>

\* The select of emitMatch takes the send: the channel has room.
SendCandidate ==
    /\ ppc = "send"
    /\ Len(out) < OutCap
    /\ out' = Append(out, pending[1])
    /\ sent' = Append(sent, pending[1])
    /\ sentPass' = Append(sentPass, pass)
    /\ pending' = <<>>
    /\ ppc' = "scan"
    /\ UNCHANGED <<pattern, err, rgret, pass, scanned, seen, id, outClosed, done, doneClosed,
                   cancelled, dropped, received, doneSent,
                   outsideEmission>>

\* An emitMatch whose send is not in a select with ctx.Done(): cancellation
\* is noticed only when the channel has room.
SendCancelledWithRoom ==
    /\ ppc = "send"
    /\ cancelled
    /\ Len(out) < OutCap
    /\ ppc' = "report"
    /\ err' = PassError(pass)
    /\ rgret' = contextError
    /\ UNCHANGED <<pattern, pass, scanned, seen, id, pending, out, outClosed, done,
                   doneClosed, cancelled, sent, dropped, received, doneSent,
                   outsideProducer>>

\* The select of emitMatch takes ctx.Done(): emitMatch returns ctx.Err(),
\* runRGPass waits for the child and returns the error.
SendCancelled ==
    /\ ppc = "send"
    /\ cancelled
    /\ ppc' = "report"
    /\ err' = PassError(pass)
    /\ rgret' = contextError
    /\ UNCHANGED <<pattern, pass, scanned, seen, id, pending, out, outClosed, done,
                   doneClosed, cancelled, sent, dropped, received, doneSent,
                   outsideProducer>>

\* A goroutine that runs the config pass whatever the pattern is.
AfterPassAnyPattern ==
    IF pass = 1
    THEN ppc' = "start" /\ pass' = 2
    ELSE ppc' = "report" /\ pass' = pass

\* The pass after a clean return of runRGPass.
AfterPass ==
    IF pass = 1 /\ shouldIncludeConfigPass(effectivePattern(pattern))
    THEN ppc' = "start" /\ pass' = 2
    ELSE ppc' = "report" /\ pass' = pass

\* scanner.Scan() returns false and the rest of runRGPass runs: a read
\* error, or cmd.Wait() with the child's exit code and what it wrote to
\* its standard error.
EndPass ==
    /\ ppc = "scan"
    /\ \E ret \in {readError} \cup
                  {waitResult(code, stderr) : code \in ExitCodes, stderr \in StderrPool} :
          /\ rgret' = ret
          /\ IF ret.failed
             THEN ppc' = "report" /\ err' = PassError(pass) /\ pass' = pass
             ELSE AfterPass /\ err' = err
    /\ UNCHANGED <<pattern, scanned, seen, id, pending, out, outClosed, done, doneClosed,
                   cancelled, sent, dropped, received, doneSent,
                   outsideProducer>>

\* done <- err, or done <- nil
SendDone ==
    /\ ppc = "report"
    /\ Len(done) < 1
    /\ done' = Append(done, err)
    /\ doneSent' = Append(doneSent, err)
    /\ ppc' = "close done"
    /\ UNCHANGED <<pattern, err, rgret, pass, scanned, seen, id, pending, out, outClosed,
                   doneClosed, cancelled, sent, dropped, received, outsideProducer>>

\* The goroutine returns without closing done.
CloseDoneForgotten ==
    /\ ppc = "close done"
    /\ ppc' = "close out"
    /\ UNCHANGED <<pattern, err, rgret, pass, scanned, seen, id, pending, out, outClosed, done,
                   doneClosed, cancelled, sent, dropped, received, doneSent,
                   outsideProducer>>

\* The deferred close(done) runs first.
CloseDone ==
    /\ ppc = "close done"
    /\ doneClosed' = TRUE
    /\ ppc' = "close out"
    /\ UNCHANGED <<pattern, err, rgret, pass, scanned, seen, id, pending, out, outClosed, done,
                   cancelled, sent, dropped, received, doneSent,
                   outsideProducer>>

\* The deferred close(out) runs last, and the goroutine ends.
CloseOut ==
    /\ ppc = "close out"
    /\ outClosed' = TRUE
    /\ ppc' = "exited"
    /\ UNCHANGED <<pattern, err, rgret, pass, scanned, seen, id, pending, out, done, doneClosed,
                   cancelled, sent, dropped, received, doneSent,
                   outsideProducer>>

\* The consumer takes the next candidate from the channel.
Receive ==
    /\ Len(out) > 0
    /\ received' = Append(received, out[1])
    /\ out' = Tail(out)
    /\ UNCHANGED <<pattern, ppc, err, rgret, pass, scanned, seen, id, pending, outClosed, done,
                   doneClosed, cancelled, sent, dropped, doneSent,
                   outsideProducer>>

\* The consumer takes the value from the done channel.
ReceiveDone ==
    /\ Len(done) > 0
    /\ done' = Tail(done)
    /\ UNCHANGED <<pattern, ppc, err, rgret, pass, scanned, seen, id, pending, out, outClosed,
                   doneClosed, cancelled, sent, dropped, received, doneSent,
                   outsideProducer>>

\* The caller cancels the context.
Cancel ==
    /\ ~cancelled
    /\ cancelled' = TRUE
    /\ UNCHANGED <<pattern, ppc, err, rgret, pass, scanned, seen, id, pending, out, outClosed,
                   done, doneClosed, sent, dropped, received, doneSent,
                   outsideProducer>>

ProducerNext ==
    \/ Begin
    \/ StartPass
    \/ ScanLine
    \/ SendCandidate
    \/ SendCancelled
    \/ EndPass
    \/ SendDone
    \/ CloseDone
    \/ CloseOut
    \/ Receive
    \/ ReceiveDone
    \/ Cancel

SpecProducer == ProducerInit /\ [][ProducerNext]_vars

\* The goroutine's last three steps never wait for anything but the
\* scheduler: done has room for its one value, and a close never blocks.
SpecProducerLive ==
    SpecProducer /\ WF_vars(SendDone) /\ WF_vars(CloseDone) /\ WF_vars(CloseOut)

\* ------------------------------------------------------------------------
\* Properties of the producer
\* ------------------------------------------------------------------------

SameLocation(a, b) == a.File = b.File /\ a.Line = b.Line /\ a.Col = b.Col

\* C10: over both passes of a run no two candidates sent share a cleaned
\* path, line and column; a dropped duplicate consumes no id; and the k-th
\* candidate sent has id k.
DedupeAndDenseIDs ==
    /\ \A i \in 1..Len(sent) : \A j \in 1..Len(sent) :
          i # j => ~SameLocation(sent[i], sent[j])
    /\ \A k \in 1..Len(sent) : sent[k].ID = k /\ sent[k].File = Clean(sent[k].File)
    /\ id = Len(sent) + Len(pending)
    /\ id = Cardinality(seen)

\* C10 witness: in the config pass, after a duplicate was dropped, the third
\* candidate has been sent.
ThirdSentAfterDuplicate ==
    /\ pass = 2
    /\ scanned > 0
    /\ dropped > 0
    /\ Len(sent) = 3
    /\ sent[3].ID = 3

\* The goroutine is past its send on done.
Reported == ppc \in {"close done", "close out", "exited"}

\* The value a run owes the done channel: nil when every pass it had to make
\* ended cleanly, otherwise the error of the pass it stopped in.
LastPass == IF shouldIncludeConfigPass(effectivePattern(pattern)) THEN 2 ELSE 1

DoneValueOwed(value) ==
    IF value = "nil" THEN pass = LastPass
    ELSE value = PassError(pass)

DoneSentOnce ==
    /\ Len(doneSent) <= 1
    /\ Reported <=> Len(doneSent) = 1
    /\ ppc = "report" => Len(done) < 1
    /\ Len(doneSent) = 1 => DoneValueOwed(doneSent[1])
    /\ doneClosed <=> ppc \in {"close out", "exited"}
    /\ outClosed <=> ppc = "exited"
    /\ outClosed => doneClosed

NothingSentAfterDone == Reported => sent' = sent /\ doneSent' = doneSent

\* C11: on every path the goroutine sends exactly one value on done (nil
\* after clean passes, the failed pass's error otherwise), the send finds the
\* buffer empty, no candidate is sent after it, and done and then out are
\* closed.
DoneProtocol ==
    /\ []DoneSentOnce
    /\ [][NothingSentAfterDone]_vars
    /\ (ppc = "report") ~> (doneClosed /\ outClosed)

\* C11 witness: the config pass failed after candidates were sent, its error
\* went to done, and both channels are closed.
ConfigPassFailureReported ==
    /\ ppc = "exited"
    /\ doneSent = <<"search config entries">>
    /\ Len(sent) > 0
    /\ doneClosed /\ outClosed

\* A clean run of both passes reported nil.
CleanRunReported ==
    /\ ppc = "exited"
    /\ doneSent = <<"nil">>
    /\ pass = 2

\* ------------------------------------------------------------------------
\* index_cache.go: the one-record index cache on disk
\* ------------------------------------------------------------------------

indexCacheVersion == 1

\* encoding/gob puts a struct on the wire as its fields of non-zero value: a
\* zero number, an empty string, false, and a slice of length 0 (nil or not)
\* are left out, and the decoder leaves such a field at its zero value.
gobFields(d) ==
    {f \in {"Version"} : d.Version # 0}
    \cup {f \in {"Root"} : Len(d.Root) > 0}
    \cup {f \in {"Pattern"} : Len(d.Pattern) > 0}
    \cup {f \in {"NoIgnore"} : d.NoIgnore}
    \cup {f \in {"ExcludeTests"} : d.ExcludeTests}
    \cup {f \in {"Excludes"} : Len(d.Excludes.items) > 0}
    \cup {f \in {"Candidates"} : Len(d.Candidates.items) > 0}

gobEncode(d) ==
    [f \in gobFields(d) |-> IF f \in {"Excludes", "Candidates"} THEN d[f].items ELSE d[f]]

gobNumber(bytes, f) == IF f \in DOMAIN bytes THEN bytes[f] ELSE 0
gobString(bytes, f) == IF f \in DOMAIN bytes THEN bytes[f] ELSE <<>>
gobBool(bytes, f) == f \in DOMAIN bytes
gobSlice(bytes, f) == IF f \in DOMAIN bytes THEN Slice(bytes[f]) ELSE NilSlice

gobDecode(bytes) ==
    [Version |-> gobNumber(bytes, "Version"),
     Root |-> gobString(bytes, "Root"),
     Pattern |-> gobString(bytes, "Pattern"),
     NoIgnore |-> gobBool(bytes, "NoIgnore"),
     ExcludeTests |-> gobBool(bytes, "ExcludeTests"),
     Excludes |-> gobSlice(bytes, "Excludes"),
     Candidates |-> gobSlice(bytes, "Candidates")]

\* append([]string(nil), items...)
copyOf(slice) == IF Len(slice.items) = 0 THEN NilSlice ELSE Slice(slice.items)

\* The diskIndexCache a build of version `version` writes for cfg.
diskIndexCache(version, cfg, cands) ==
    [Version |-> version, Root |-> Clean(cfg.Root), Pattern |-> cfg.Pattern,
     NoIgnore |-> cfg.NoIgnore, ExcludeTests |-> cfg.ExcludeTests,
     Excludes |-> copyOf(cfg.Excludes), Candidates |-> cands]

\* The file such a build leaves behind; `origin` remembers the arguments.
GobFile(version, cfg, cands) ==
    [kind |-> "gob", bytes |-> gobEncode(diskIndexCache(version, cfg, cands)),
     origin |-> [version |-> version, cfg |-> cfg, cands |-> cands]]

CorruptFile == [kind |-> "corrupt", bytes |-> NoFile.bytes, origin |-> NoFile.origin]

\* A comparison that skips the exclude globs.
indexCacheMatchesWithoutExcludes(disk, cfg) ==
    /\ disk.Version = indexCacheVersion
    /\ Clean(disk.Root) = Clean(cfg.Root)
    /\ disk.Pattern = cfg.Pattern
    /\ disk.NoIgnore = cfg.NoIgnore
    /\ disk.ExcludeTests = cfg.ExcludeTests

indexCacheMatches(disk, cfg) ==
    IF disk.Version # indexCacheVersion THEN FALSE
    ELSE IF Clean(disk.Root) # Clean(cfg.Root) THEN FALSE
    ELSE IF disk.Pattern # cfg.Pattern \/ disk.NoIgnore # cfg.NoIgnore
            \/ disk.ExcludeTests # cfg.ExcludeTests THEN FALSE
    ELSE IF Len(disk.Excludes.items) # Len(cfg.Excludes.items) THEN FALSE
    ELSE \A i \in 1..Len(disk.Excludes.items) : disk.Excludes.items[i] = cfg.Excludes.items[i]

loadResult(cfg, file, cands, ok, e) ==
    [cfg |-> cfg, file |-> file, cands |-> cands, ok |-> ok, err |-> e]

\* LoadIndexCache once os.Open has returned `file`.
LoadIndexCache(cfg, file) ==
    IF file.kind = "absent" THEN loadResult(cfg, file, NilSlice, FALSE, "nil")
    ELSE IF file.kind = "corrupt" THEN loadResult(cfg, file, NilSlice, FALSE, "decode")
    ELSE Bind(gobDecode(file.bytes),
              LAMBDA disk : IF ~indexCacheMatches(disk, cfg)
                            THEN loadResult(cfg, file, NilSlice, FALSE, "nil")
                            ELSE loadResult(cfg, file, disk.Candidates, TRUE, "nil"))

\* Saves one run of the model completes or abandons.
MaxSaves == 2

MakeConfig(root, pat, noIgnore, excludeTests, excludes) ==
    [Root |-> Runes(root), Pattern |-> Runes(pat), NoIgnore |-> noIgnore,
     ExcludeTests |-> excludeTests, Excludes |-> excludes]

GlobV == Runes("v")
GlobW == Runes("w")

\* One configuration and its neighbours: the same root spelled otherwise,
\* and one field changed at a time.
ConfigPool ==
    {MakeConfig("/r/a", "decl", FALSE, TRUE, Slice(<<GlobV>>)),
     MakeConfig("/r/b/../a/", "decl", FALSE, TRUE, Slice(<<GlobV>>)),
     MakeConfig("/r/b", "decl", FALSE, TRUE, Slice(<<GlobV>>)),
     MakeConfig("/r/a", "todo", FALSE, TRUE, Slice(<<GlobV>>)),
     MakeConfig("/r/a", "decl", TRUE, TRUE, Slice(<<GlobV>>)),
     MakeConfig("/r/a", "decl", FALSE, FALSE, Slice(<<GlobV>>)),
     MakeConfig("/r/a", "decl", FALSE, TRUE, Slice(<<GlobV, GlobW>>)),
     MakeConfig("/r/a", "decl", FALSE, TRUE, Slice(<<GlobW, GlobV>>)),
     MakeConfig("/r/a", "decl", FALSE, TRUE, Slice(<<>>)),
     MakeConfig("/r/a", "decl", FALSE, TRUE, NilSlice)}

CachedA == newCandidate(1, parseRGVimgrepLine(Runes("a.go") \o <<NUL>> \o Runes("1:1:x")))
CachedB == newCandidate(2, parseRGVimgrepLine(Runes("b.go") \o <<NUL>> \o Runes("2:1:y")))

\* The configurations the model saves under (loads use every one of the
\* pool), and the candidate vectors it saves.
SavedConfigs ==
    {cfg \in ConfigPool :
        /\ cfg.Root \in {Runes("/r/a"), Runes("/r/b")}
        /\ ~cfg.NoIgnore /\ cfg.ExcludeTests
        /\ ~cfg.Excludes.isNil
        /\ cfg.Excludes.items # <<GlobW, GlobV>>}

CachedLists == {Slice(<<>>), Slice(<<CachedA, CachedB>>)}

\* The cache directory as a run finds it: empty, or with the file of an
\* earlier or later release, or with a damaged file.
CacheInit ==
    /\ cacheFile \in {NoFile, CorruptFile}
                     \cup {GobFile(v, cfg, Slice(<<CachedA>>)) :
                             v \in {0, 2}, cfg \in {MakeConfig("/r/a", "decl", FALSE, TRUE,
                                                               Slice(<<GlobV>>))}}
    /\ tmpFile = NoFile
    /\ spc = "idle"
    /\ saves = <<>>
    /\ loaded = <<>>
    /\ FilterIdle
    /\ ParseIdle
    /\ ProducerIdle
    /\ UiIdle
    /\ SpansIdle
    /\ LruIdle
    /\ QueueIdle
    /\ SemanticIdle
    /\ EditIdle
    /\ FsIdle
    /\ PassIdle

\* LoadIndexCache(cfg): open, decode, compare.
Load ==
    /\ \E cfg \in ConfigPool :
          \/ loaded' = <<LoadIndexCache(cfg, cacheFile)>>
          \/ loaded' = <<loadResult(cfg, NoFile, NilSlice, FALSE, "open")>>
    /\ UNCHANGED <<cacheFile, tmpFile, spc, saves, outsideCache>>

\* SaveIndexCache(cfg, candidates) up to the close of the temporary file:
\* os.Create truncates what is there; an encode, flush or close error
\* removes the file and returns.
SaveWrite ==
    /\ spc = "idle"
    /\ Len(saves) < MaxSaves
    /\ \E cfg \in SavedConfigs, cands \in CachedLists :
          \/ tmpFile' = GobFile(indexCacheVersion, cfg, cands) /\ spc' = "written"
          \/ tmpFile' = NoFile /\ spc' = "idle"
    /\ UNCHANGED <<cacheFile, saves, loaded, outsideCache>>

\* A rename that reports success and moves nothing.
SaveRenameLost ==
    /\ spc = "written"
    /\ saves' = Append(saves, [cfg |-> tmpFile.origin.cfg, cands |-> tmpFile.origin.cands])
    /\ tmpFile' = NoFile
    /\ spc' = "idle"
    /\ UNCHANGED <<cacheFile, loaded, outsideCache>>

\* os.Rename(tmpPath, path): the save completes, or the temporary file is
\* removed and the error returned.
SaveRename ==
    /\ spc = "written"
    /\ \/ /\ cacheFile' = tmpFile
          /\ saves' = Append(saves, [cfg |-> tmpFile.origin.cfg,
                                     cands |-> tmpFile.origin.cands])
       \/ UNCHANGED <<cacheFile, saves>>
    /\ tmpFile' = NoFile
    /\ spc' = "idle"
    /\ UNCHANGED <<loaded, outsideCache>>

CacheNext ==
    \/ Load
    \/ SaveWrite
    \/ SaveRename

SpecCache == CacheInit /\ [][CacheNext]_vars

\* ------------------------------------------------------------------------
\* Properties of the index cache
\* ------------------------------------------------------------------------

\* Two configurations agree on what the cache compares.
SameConfig(a, b) ==
    /\ Clean(a.Root) = Clean(b.Root)
    /\ a.Pattern = b.Pattern
    /\ a.NoIgnore = b.NoIgnore
    /\ a.ExcludeTests = b.ExcludeTests
    /\ a.Excludes.items = b.Excludes.items

\* The load l opened a file and could read it.
Decoded(l) == l.file.kind = "gob" /\ l.err = "nil"

\* C12: a load of the file a save of (cfg', C) by a build of some version
\* left hits if and only if that version is the current one and cfg agrees
\* with cfg' on cleaned root, pattern, no_ignore, exclude_tests and the
\* excludes in order; a hit returns the candidates of C, and every miss
\* (no file, unreadable file included) returns none.
CacheRoundTrip ==
    \A i \in 1..Len(loaded) :
        \E l \in {loaded[i]} :
            /\ Decoded(l) =>
                  /\ l.ok <=> (l.file.origin.version = indexCacheVersion
                               /\ SameConfig(l.cfg, l.file.origin.cfg))
                  /\ l.ok => l.cands.items = l.file.origin.cands.items
            /\ ~Decoded(l) => ~l.ok
            /\ ~l.ok => l.cands = NilSlice

\* C12 witness: a save was completed and a load with the same root spelled
\* otherwise hit and returned its two candidates.
CacheHitAcrossRootSpelling ==
    /\ Len(saves) > 0
    /\ Len(loaded) = 1
    /\ loaded[1].ok
    /\ loaded[1].file = cacheFile
    /\ loaded[1].cfg.Root # cacheFile.origin.cfg.Root
    /\ Len(loaded[1].cands.items) = 2

\* A load missed on the order of the excludes alone.
CacheMissOnExcludeOrder ==
    /\ Len(saves) > 0
    /\ Len(loaded) = 1
    /\ ~loaded[1].ok
    /\ Decoded(loaded[1])
    /\ loaded[1].cfg.Excludes.items = <<GlobW, GlobV>>
    /\ loaded[1].file.origin.cfg.Excludes.items = <<GlobV, GlobW>>

\* The load l read the file as it is now.
ReadCurrentFile(l) == l.file = cacheFile /\ l.err # "open"

\* C13: once saves have completed the file holds the record of the last one
\* and nothing else: a load with the last save's configuration hits and
\* returns that save's candidates, and a load with the configuration of an
\* earlier save that differs from the last one misses.
CacheKeepsLastSave ==
    Len(saves) > 0 =>
        \E last \in {saves[Len(saves)]} :
            /\ cacheFile.kind = "gob"
            /\ cacheFile.origin = [version |-> indexCacheVersion, cfg |-> last.cfg,
                                   cands |-> last.cands]
            /\ spc = "idle" => tmpFile = NoFile
            /\ \A k \in 1..Len(loaded) :
                  ReadCurrentFile(loaded[k]) =>
                      /\ loaded[k].cfg = last.cfg =>
                            loaded[k].ok /\ loaded[k].cands.items = last.cands.items
                      /\ \A i \in 1..(Len(saves) - 1) :
                            (loaded[k].cfg = saves[i].cfg /\ ~SameConfig(saves[i].cfg, last.cfg))
                                => ~loaded[k].ok /\ loaded[k].cands = NilSlice

\* C13 witness: after two completed saves with different patterns a load
\* with the first save's configuration missed.
EarlierSaveMisses ==
    /\ Len(saves) = 2
    /\ saves[1].cfg.Pattern # saves[2].cfg.Pattern
    /\ Len(loaded) = 1
    /\ ReadCurrentFile(loaded[1])
    /\ loaded[1].cfg = saves[1].cfg
    /\ ~loaded[1].ok

\* ------------------------------------------------------------------------
\* main.go: the controller's tick (drainProducer, drainProducerDone, the due
\* filter) over the producer's channels, with the query left empty
\* ------------------------------------------------------------------------

\* drainProducer(4000), scaled to the model.
DrainMax == 1

\* The filter of an empty query, and the entry drainProducer appends for it.
unfiltered(index) == [Index |-> index, Score |-> 0, OpenLine |-> 0, OpenCol |-> 0]

useCachedIndex(mm, cands) ==
    IF Len(cands) = 0 THEN mm
    ELSE [mm EXCEPT !.rebuildFromScan = TRUE,
                    !.scanCandidates = <<>>,
                    !.candidates = cands,
                    !.filtered = Slice([i \in 1..Len(cands) |-> unfiltered(i - 1)]),
                    !.lastFilterCandidateN = Len(cands),
                    !.status = <<"using cached index", Len(cands)>>]

\* scheduleFilter(delay): with no delay the filter is due as soon as the
\* clock has moved.
scheduleFilter(mm, delay) == [mm EXCEPT !.filterPending = TRUE, !.untilDue = delay]

\* An arrival that goes to the visible vector whatever the mode.
appendArrivalVisible(mm, cand, needFilter) ==
    <<[mm EXCEPT !.candidates = Append(@, cand),
                 !.filtered = Slice(Append(@.items, unfiltered(Len(mm.candidates))))],
      needFilter>>

\* A drain that puts each arrival in front of the vector.
appendArrivalInFront(mm, cand, needFilter) ==
    IF mm.rebuildFromScan
    THEN <<[mm EXCEPT !.scanCandidates = <<cand>> \o @], needFilter>>
    ELSE IF Len(mm.queryRunes) = 0
    THEN <<[mm EXCEPT !.candidates = <<cand>> \o @,
                      !.filtered = Slice(Append(@.items, unfiltered(Len(mm.candidates))))],
           needFilter>>
    ELSE <<[mm EXCEPT !.candidates = <<cand>> \o @], TRUE>>

\* The body of drainProducer's receive case; the second component is the
\* handler's needFilter.
appendArrival(mm, cand, needFilter) ==
    IF mm.rebuildFromScan
    THEN <<[mm EXCEPT !.scanCandidates = Append(@, cand)], needFilter>>
    ELSE IF Len(mm.queryRunes) = 0
    THEN <<[mm EXCEPT !.candidates = Append(@, cand),
                      !.filtered = Slice(Append(@.items, unfiltered(Len(mm.candidates))))],
           needFilter>>
    ELSE <<[mm EXCEPT !.candidates = Append(@, cand)], TRUE>>

\* drainProducer's deferred function.
drainReturn(mm, needFilter) ==
    IF needFilter /\ ~mm.resetSelectionOnFilter THEN scheduleFilter(mm, 0) ELSE mm

\* A done check that takes an error for success.
producerReportedAsSuccess(mm, e) ==
    IF mm.rebuildFromScan
    THEN [mm EXCEPT !.scanDone = TRUE, !.producerDone = "nil",
                    !.rebuildFromScan = FALSE,
                    !.candidates = mm.scanCandidates,
                    !.scanCandidates = <<>>,
                    !.filtered = NilSlice,
                    !.lastFilterCandidateN = 0,
                    !.lastFilterQueryRunes = <<>>,
                    !.resetSelectionOnFilter = TRUE,
                    !.filterPending = TRUE,
                    !.untilDue = 0,
                    !.status = <<"index refreshed", Len(mm.scanCandidates)>>,
                    !.saving = Append(@, mm.scanCandidates)]
    ELSE [mm EXCEPT !.scanDone = TRUE, !.producerDone = "nil",
                    !.saving = Append(@, mm.candidates)]

\* A swap that leaves the filtered list of the cached vector in place.
producerReportedKeepingFiltered(mm, e) ==
    IF e # "nil"
    THEN [mm EXCEPT !.scanDone = TRUE, !.producerDone = "nil", !.errMsg = e]
    ELSE IF mm.rebuildFromScan
    THEN [mm EXCEPT !.scanDone = TRUE, !.producerDone = "nil",
                    !.rebuildFromScan = FALSE,
                    !.candidates = mm.scanCandidates,
                    !.scanCandidates = <<>>,
                    !.resetSelectionOnFilter = TRUE,
                    !.filterPending = TRUE,
                    !.untilDue = 0,
                    !.status = <<"index refreshed", Len(mm.scanCandidates)>>,
                    !.saving = Append(@, mm.scanCandidates)]
    ELSE [mm EXCEPT !.scanDone = TRUE, !.producerDone = "nil",
                    !.saving = Append(@, mm.candidates)]

\* drainProducerDone after its select received err (ok is true: the value
\* is sent before the close).
producerReported(mm, e) ==
    IF e # "nil"
    THEN [mm EXCEPT !.scanDone = TRUE, !.producerDone = "nil", !.errMsg = e]
    ELSE IF mm.rebuildFromScan
    THEN [mm EXCEPT !.scanDone = TRUE, !.producerDone = "nil",
                    !.rebuildFromScan = FALSE,
                    !.candidates = mm.scanCandidates,
                    !.scanCandidates = <<>>,
                    !.filtered = NilSlice,
                    !.lastFilterCandidateN = 0,
                    !.lastFilterQueryRunes = <<>>,
                    !.resetSelectionOnFilter = TRUE,
                    !.filterPending = TRUE,
                    !.untilDue = 0,
                    !.status = <<"index refreshed", Len(mm.scanCandidates)>>,
                    !.saving = Append(@, mm.scanCandidates)]
    ELSE [mm EXCEPT !.scanDone = TRUE, !.producerDone = "nil",
                    !.saving = Append(@, mm.candidates)]

\* The ranker's three calls as applyFilter makes them, on vectors below the
\* parallel threshold; each is the set of results sort.Slice may leave.
sortedSlices(cands, scored) == {Slice(sorted) : sorted \in sortFilteredCandidates(cands, scored)}

FilterCandidatesWithQueryRunes(cands, qRaw, qLower) ==
    IF Len(qLower) = 0
    THEN {Slice([i \in 1..Len(cands) |-> unfiltered(i - 1)])}
    ELSE sortedSlices(cands, appendScoredRange(<<>>, cands, NilSlice, 0, Len(cands),
                                               qRaw, qLower, Len(qRaw) = Len(qLower)))

FilterCandidatesSubsetWithQueryRunes(cands, subset, qRaw, qLower) ==
    IF Len(qLower) = 0
    THEN {Slice([i \in 1..Len(cands) |-> unfiltered(i - 1)])}
    ELSE IF Len(subset.items) = 0 THEN {NilSlice}
    ELSE sortedSlices(cands, appendScoredRange(<<>>, cands, Slice(subset.items), 0,
                                               Len(subset.items), qRaw, qLower,
                                               Len(qRaw) = Len(qLower)))

rangeFilter(cands, start, end, qRaw, qLower) ==
    IF start >= end THEN {NilSlice}
    ELSE sortedSlices(cands, appendScoredRange(<<>>, cands, NilSlice, start, end,
                                               qRaw, qLower, Len(qRaw) = Len(qLower)))

resetSelection(mm) == [mm EXCEPT !.cursor = 0, !.offset = 0]

clampInt(v, lo, hi) == IF v < lo THEN lo ELSE IF v > hi THEN hi ELSE v

\* ensureCursor after its empty-list check: the cursor is clamped into the
\* list and the offset moved so that the page shows it.
offsetFor(cursor, offset, page, n) ==
    Bind(IF cursor < offset THEN cursor
         ELSE IF cursor >= offset + page THEN cursor - page + 1
         ELSE offset,
         LAMBDA moved : clampInt(moved, 0, IF n - page > 0 THEN n - page ELSE 0))

ensureCursor(mm) ==
    IF Len(mm.filtered.items) = 0 THEN resetSelection(mm)
    ELSE Bind(clampInt(mm.cursor, 0, Len(mm.filtered.items) - 1), LAMBDA cursor :
            [mm EXCEPT !.cursor = cursor,
                       !.offset = offsetFor(cursor, mm.offset, mm.page,
                                            Len(mm.filtered.items))])

\* selectedCandidate().ID, or 0 when there is no selected candidate.
selectedID(mm) ==
    IF Len(mm.filtered.items) = 0 \/ mm.cursor < 0 \/ mm.cursor >= Len(mm.filtered.items)
    THEN 0
    ELSE mm.candidates[mm.filtered.items[mm.cursor + 1].Index + 1].ID

shouldUseIncrementalFilter(current, previous, candidateN, previousCandidateN) ==
    /\ Len(current) # 0 /\ Len(previous) # 0
    /\ Len(current) > Len(previous)
    /\ candidateN = previousCandidateN
    /\ \A i \in 1..Len(previous) : current[i] = previous[i]

\* The branch applyFilter takes.
filterStrategy(mm) ==
    IF Len(mm.candidates) = mm.lastFilterCandidateN /\ mm.queryRunes = mm.lastFilterQueryRunes
    THEN "none"
    ELSE IF /\ ~mm.resetSelectionOnFilter
            /\ mm.queryRunes = mm.lastFilterQueryRunes
            /\ Len(mm.queryRunes) > 0
            /\ Len(mm.candidates) > mm.lastFilterCandidateN
    THEN "append"
    ELSE IF shouldUseIncrementalFilter(mm.queryRunes, mm.lastFilterQueryRunes,
                                       Len(mm.candidates), mm.lastFilterCandidateN)
    THEN "refine"
    ELSE "full"

filteredBy(mm, strategy) ==
    CASE strategy = "append" ->
            {MergeFilteredCandidates(mm.candidates, mm.filtered, added) :
                added \in rangeFilter(mm.candidates, mm.lastFilterCandidateN,
                                      Len(mm.candidates), mm.queryRaw, mm.queryRunes)}
      [] strategy = "refine" ->
            FilterCandidatesSubsetWithQueryRunes(mm.candidates, mm.filtered,
                                                 mm.queryRaw, mm.queryRunes)
      [] strategy = "full" ->
            FilterCandidatesWithQueryRunes(mm.candidates, mm.queryRaw, mm.queryRunes)

\* A cursor that goes to the top whatever was selected.
placeCursorAtTop(mm, reset, wanted) == resetSelection(mm)

\* The end of applyFilter: the cursor goes to the entry of the candidate
\* that was selected, or to the top.
placeCursor(mm, reset, wanted) ==
    IF Len(mm.filtered.items) = 0 \/ reset \/ wanted = 0 THEN resetSelection(mm)
    ELSE Bind({i \in 1..Len(mm.filtered.items) :
                  mm.candidates[mm.filtered.items[i].Index + 1].ID = wanted},
              LAMBDA found :
                  IF found = {} THEN resetSelection(mm)
                  ELSE ensureCursor([mm EXCEPT !.cursor =
                            (CHOOSE i \in found : \A j \in found : i <= j) - 1]))

\* applyFilter; filterDue is read while filterPending only, and is put past
\* here.
applyFilter(mm) ==
    IF filterStrategy(mm) = "none"
    THEN {[mm EXCEPT !.filterPending = FALSE, !.untilDue = -1]}
    ELSE {placeCursor([mm EXCEPT !.filterPending = FALSE,
                                 !.untilDue = -1,
                                 !.resetSelectionOnFilter = FALSE,
                                 !.filtered = f,
                                 !.lastFilterQueryRunes = mm.queryRunes,
                                 !.lastFilterCandidateN = Len(mm.candidates)],
                      mm.resetSelectionOnFilter,
                      IF mm.resetSelectionOnFilter THEN 0 ELSE selectedID(mm)) :
             f \in filteredBy(mm, filterStrategy(mm))}

\* main() up to p.Run(): the cache was loaded (a miss, or a hit with no or
\* two candidates), the producer started for a pattern of the user's (one
\* grep pass) and the model built.
UIInit ==
    /\ ProducerStart
    /\ pattern = Runes("todo")
    /\ \E cached \in {<<>>, <<CachedA, CachedB>>} : model = useCachedIndex(newModel, cached)
    /\ tick = NoTick
    /\ FilterIdle
    /\ ParseIdle
    /\ CacheIdle
    /\ SpansIdle
    /\ LruIdle
    /\ QueueIdle
    /\ SemanticIdle
    /\ EditIdle
    /\ FsIdle
    /\ PassIdle

\* Update(tickMsg) enters drainProducer.
TickBegin ==
    /\ tick.pc = "idle"
    /\ tick' = [pc |-> "drain", drained |-> 0, needFilter |-> FALSE]
    /\ UNCHANGED <<model, producerVars, outsideUI>>

\* A drain loop `for { select ... }` with no count of its turns.
DrainReceiveUncounted ==
    /\ tick.pc = "drain"
    /\ model.producerOut = "open"
    /\ Len(out) > 0
    /\ out' = Tail(out)
    /\ received' = Append(received, out[1])
    /\ \E got \in {appendArrival(model, out[1], tick.needFilter)} :
          /\ model' = got[1]
          /\ tick' = [tick EXCEPT !.drained = @ + 1, !.needFilter = got[2]]
    /\ UNCHANGED <<pattern, ppc, err, rgret, pass, scanned, seen, id, pending, outClosed, done,
                   doneClosed, cancelled, sent, dropped, doneSent, outsideUI>>

\* One turn of drainProducer's loop whose select receives a candidate; the
\* loop ends after DrainMax of them.
DrainReceive ==
    /\ tick.pc = "drain"
    /\ model.producerOut = "open"
    /\ Len(out) > 0
    /\ out' = Tail(out)
    /\ received' = Append(received, out[1])
    /\ \E got \in {appendArrival(model, out[1], tick.needFilter)} :
          IF tick.drained + 1 < DrainMax
          THEN /\ model' = got[1]
               /\ tick' = [tick EXCEPT !.drained = @ + 1, !.needFilter = got[2]]
          ELSE /\ model' = drainReturn(got[1], got[2])
               /\ tick' = [tick EXCEPT !.pc = "done", !.drained = @ + 1, !.needFilter = got[2]]
    /\ UNCHANGED <<pattern, ppc, err, rgret, pass, scanned, seen, id, pending, outClosed, done,
                   doneClosed, cancelled, sent, dropped, doneSent, outsideUI>>

\* The select finds nothing to receive: the channel is closed and drained
\* (producerOut becomes nil), or empty, or already nil; drainProducer returns.
DrainStop ==
    /\ tick.pc = "drain"
    /\ model.producerOut = "nil" \/ Len(out) = 0
    /\ \E closed \in {model.producerOut = "open" /\ outClosed} :
          model' = drainReturn([model EXCEPT !.producerOut = IF closed THEN "nil" ELSE @],
                               tick.needFilter)
    /\ tick' = [tick EXCEPT !.pc = "done"]
    /\ UNCHANGED <<producerVars, outsideUI>>

\* drainProducerDone: nothing once the scan is done; otherwise one select on
\* the done channel with a default.
DrainDone ==
    /\ tick.pc = "done"
    /\ tick' = [tick EXCEPT !.pc = "filter"]
    /\ IF ~model.scanDone /\ model.producerDone = "open" /\ Len(done) > 0
       THEN /\ model' = producerReported(model, done[1])
            /\ done' = Tail(done)
       ELSE UNCHANGED <<model, done>>
    /\ UNCHANGED <<pattern, ppc, err, rgret, pass, scanned, seen, id, pending, out, outClosed,
                   doneClosed, cancelled, sent, dropped, received, doneSent, outsideUI>>

\* The rest of the tick: the pending filter runs if the clock is past its
\* due time.
TickFilter ==
    /\ tick.pc = "filter"
    /\ tick' = NoTick
    /\ \/ model.filterPending /\ model' \in applyFilter(model)
       \/ UNCHANGED model
    /\ UNCHANGED <<producerVars, outsideUI>>

\* Update(tea.WindowSizeMsg)
Resize ==
    /\ tick.pc = "idle"
    /\ ~model.filterPending
    /\ model' = scheduleFilter(model, 0)
    /\ UNCHANGED <<tick, producerVars, outsideUI>>

UINext ==
    \/ Begin
    \/ StartPass
    \/ ScanLine
    \/ SendCandidate
    \/ EndPass
    \/ SendDone
    \/ CloseDone
    \/ CloseOut
    \/ TickBegin
    \/ DrainReceive
    \/ DrainStop
    \/ DrainDone
    \/ TickFilter
    \/ Resize

SpecUI == UIInit /\ [][UINext]_vars

\* ------------------------------------------------------------------------
\* Properties of the controller
\* ------------------------------------------------------------------------

\* The vector LoadIndexCache returned to a warm start.
CachedVector == <<CachedA, CachedB>>

\* While the rescan runs after a warm start the visible vector and the
\* filtered list are those of the cache, and the rescan's candidates are in
\* the buffer.
WarmState ==
    model.rebuildFromScan =>
        /\ model.candidates = CachedVector
        /\ model.filtered.items = [i \in 1..Len(CachedVector) |-> unfiltered(i - 1)]
        /\ model.scanCandidates = received
        /\ model.saving = <<>>

\* A candidate arriving during the rescan goes to the buffer and nowhere
\* else; the swap happens on the nil from the done channel, in that one step.
WarmStep ==
    /\ (model.rebuildFromScan /\ received' # received) =>
          /\ model'.candidates = model.candidates
          /\ model'.filtered = model.filtered
          /\ model'.scanCandidates = Append(model.scanCandidates, out[1])
    /\ (model.rebuildFromScan /\ ~model.scanDone /\ model'.scanDone) =>
          (model'.rebuildFromScan <=> done[1] # "nil")
    /\ (model.rebuildFromScan /\ ~model'.rebuildFromScan) =>
          /\ Len(done) > 0 /\ done[1] = "nil"
          /\ model'.candidates = model.scanCandidates
          /\ Len(model'.filtered.items) = 0
          /\ model'.filterPending
          /\ model'.resetSelectionOnFilter
          /\ model'.status = <<"index refreshed", Len(model.scanCandidates)>>

\* C14: after a warm start the rescan's candidates accumulate in the buffer
\* and change neither the visible vector nor the filtered list until the
\* producer reports success; in that step the visible vector becomes the
\* scanned list, the filtered list is cleared, a filter with selection reset
\* is scheduled at once and the status is "index refreshed".
WarmStartSwap == []WarmState /\ [][WarmStep]_vars

\* C14 witness: the swap has just put a scanned candidate in place of the
\* two cached ones, with the filter scheduled and not yet run.
WarmStartSwapped ==
    /\ ~model.rebuildFromScan
    /\ model.status = <<"index refreshed", 1>>
    /\ model.candidates = received
    /\ Len(model.candidates) = 1
    /\ model.filtered = NilSlice
    /\ model.filterPending /\ model.resetSelectionOnFilter
    /\ tick.pc = "filter"

\* ------------------------------------------------------------------------
\* Highlight spans (internal/highlighter): building, normalising, projecting
\* ------------------------------------------------------------------------

NL == 10

\* A rune of two UTF-8 bytes (e with acute accent).
EACUTE == 233

TokenPlain == 0
TokenKeyword == 1

HighlightContextSynthetic == "synthetic"
HighlightContextFile == "file"

\* NewHighlighter's context radius when the configuration gives none.
defaultContextRadius == 40

\* The three dots truncateText appends.
ellipsis == Runes("...")

minOf(a, b) == IF a < b THEN a ELSE b

maxOf(a, b) == IF a > b THEN a ELSE b

\* strings.HasSuffix
HasSuffix(s, suffix) ==
    Len(s) >= Len(suffix) /\ SubSeq(s, Len(s) - Len(suffix) + 1, Len(s)) = suffix

\* The number of bytes of a rune's UTF-8 encoding.
RuneWidth(r) == IF r < 128 THEN 1 ELSE IF r < 2048 THEN 2 ELSE IF r < 65536 THEN 3 ELSE 4

\* len(s) of a Go string.
RECURSIVE ByteLen(_)
ByteLen(s) == IF Len(s) = 0 THEN 0 ELSE RuneWidth(s[1]) + ByteLen(Tail(s))

\* utf8.RuneCountInString of the first b bytes of the runes from i on: a
\* rune cut by the end counts one for each of its bytes that is kept.
RECURSIVE runesInBytes(_, _, _)
runesInBytes(s, i, b) ==
    IF b <= 0 \/ i > Len(s) THEN 0
    ELSE IF RuneWidth(s[i]) <= b THEN 1 + runesInBytes(s, i + 1, b - RuneWidth(s[i]))
    ELSE b

byteToRuneIndex(s, b) ==
    IF b <= 0 THEN 0
    ELSE IF b >= ByteLen(s) THEN Len(s)
    ELSE runesInBytes(s, 1, b)

MakeSpan(start, end, cat) == [Start |-> start, End |-> end, Cat |-> cat]

plainSpans(text) ==
    IF Len(text) = 0 THEN <<>> ELSE <<MakeSpan(0, Len(text), TokenPlain)>>

\* An append that never merges with the last span.
appendSpanUnmerged(spans, start, end, cat) ==
    IF end <= start THEN spans ELSE Append(spans, MakeSpan(start, end, cat))

appendMergedSpan(spans, start, end, cat) ==
    IF end <= start THEN spans
    ELSE IF Len(spans) > 0 /\ spans[Len(spans)].End = start /\ spans[Len(spans)].Cat = cat
    THEN [spans EXCEPT ![Len(spans)].End = end]
    ELSE Append(spans, MakeSpan(start, end, cat))

\* normalizeSpans' first loop: clamp to [0, runeLen), drop what is empty.
clampSpan(span, runeLen) ==
    MakeSpan(maxOf(span.Start, 0), minOf(span.End, runeLen), span.Cat)

spanNotEmpty(span) == span.End > span.Start

cleanSpans(spans, runeLen) ==
    SelectSeq([i \in 1..Len(spans) |-> clampSpan(spans[i], runeLen)], spanNotEmpty)

\* The comparison normalizeSpans sorts by.
spanLess(a, b) == IF a.Start = b.Start THEN a.End < b.End ELSE a.Start < b.Start

\* sort.Slice is not stable: every arrangement in which no span is less than
\* the one before it is a possible result.
spanSortOutcomes(clean) ==
    {[i \in 1..Len(clean) |-> clean[p[i]]] :
        p \in {q \in [1..Len(clean) -> 1..Len(clean)] :
                  /\ \A i, j \in 1..Len(clean) : i # j => q[i] # q[j]
                  /\ \A i \in 1..(Len(clean) - 1) : ~spanLess(clean[q[i + 1]], clean[q[i]])}}

\* normalizeSpans' second loop from the i-th sorted span on, and the fill
\* after it.
RECURSIVE fillSpans(_, _, _, _, _)
fillSpans(clean, runeLen, i, cursor, merged) ==
    IF i > Len(clean) THEN appendMergedSpan(merged, cursor, runeLen, TokenPlain)
    ELSE IF clean[i].End <= maxOf(clean[i].Start, cursor)
    THEN fillSpans(clean, runeLen, i + 1, cursor, merged)
    ELSE fillSpans(clean, runeLen, i + 1, clean[i].End,
                   appendMergedSpan(
                       appendMergedSpan(merged, cursor, maxOf(clean[i].Start, cursor),
                                        TokenPlain),
                       maxOf(clean[i].Start, cursor), clean[i].End, clean[i].Cat))

\* The span lists normalizeSpans can return.
normalizeSpans(spans, runeLen) ==
    IF runeLen <= 0 THEN {<<>>}
    ELSE {fillSpans(clean, runeLen, 1, 0, <<>>) :
             clean \in spanSortOutcomes(cleanSpans(spans, runeLen))}

runeSpan(text, rs) ==
    MakeSpan(byteToRuneIndex(text, rs.Start), byteToRuneIndex(text, rs.End), rs.Cat)

buildMergedSpans(text, rawSpans) ==
    IF Len(text) = 0 THEN {<<>>}
    ELSE normalizeSpans(
             SelectSeq([i \in 1..Len(rawSpans) |-> runeSpan(text, rawSpans[i])], spanNotEmpty),
             Len(text))

\* What one source rune becomes on display, each display rune paired with
\* the 0-based index of the source rune.
displayOfRune(r, i) ==
    IF r = CR THEN <<>>
    ELSE IF r = NL THEN <<<<SPACE, i>>>>
    ELSE IF r = TAB THEN [j \in 1..4 |-> <<SPACE, i>>]
    ELSE <<<<r, i>>>>

RECURSIVE displayRunesFrom(_, _)
displayRunesFrom(line, i) ==
    IF i > Len(line) THEN <<>>
    ELSE displayOfRune(line[i], i - 1) \o displayRunesFrom(line, i + 1)

pairsApart(pairs) ==
    [out |-> [k \in 1..Len(pairs) |-> pairs[k][1]],
     indexMap |-> [k \in 1..Len(pairs) |-> pairs[k][2]]]

normalizeLineForDisplayRunes(line) == Bind(displayRunesFrom(line, 1), pairsApart)

\* projectSpansToDisplay: the display runes before a trailing "...".
displayPrefixLen(displayLine) ==
    IF Len(displayLine) >= 3 /\ HasSuffix(displayLine, ellipsis)
    THEN Len(displayLine) - 3
    ELSE Len(displayLine)

RECURSIVE skipSpans(_, _, _)
skipSpans(baseSpans, spanIdx, srcIdx) ==
    IF spanIdx < Len(baseSpans) /\ srcIdx >= baseSpans[spanIdx + 1].End
    THEN skipSpans(baseSpans, spanIdx + 1, srcIdx)
    ELSE spanIdx

categoryUnder(baseSpans, spanIdx, srcIdx) ==
    IF /\ spanIdx < Len(baseSpans)
       /\ srcIdx >= baseSpans[spanIdx + 1].Start
       /\ srcIdx < baseSpans[spanIdx + 1].End
    THEN baseSpans[spanIdx + 1].Cat
    ELSE TokenPlain

\* The loop over the display runes 0 .. prefixLen-1.
RECURSIVE projectLoop(_, _, _, _, _, _)
projectLoop(baseSpans, indexMap, prefixLen, i, spanIdx, projected) ==
    IF i >= prefixLen THEN projected
    ELSE Bind(skipSpans(baseSpans, spanIdx, indexMap[i + 1]),
              LAMBDA next :
                  projectLoop(baseSpans, indexMap, prefixLen, i + 1, next,
                              appendMergedSpan(projected, i, i + 1,
                                  categoryUnder(baseSpans, next, indexMap[i + 1]))))

NoProjection == [ok |-> FALSE, spans |-> <<>>]

projectedOnto(baseSpans, norm, prefixLen, displayLen) ==
    IF prefixLen > Len(norm.out) THEN {NoProjection}
    ELSE {[ok |-> TRUE, spans |-> spans] :
             spans \in normalizeSpans(
                 appendMergedSpan(
                     projectLoop(baseSpans, norm.indexMap, prefixLen, 0, 0, <<>>),
                     prefixLen, displayLen, TokenPlain),
                 displayLen)}

\* The results projectSpansToDisplay can return.
projectSpansToDisplay(baseSpans, sourceLine, displayLine) ==
    Bind(normalizeLineForDisplayRunes(sourceLine),
         LAMBDA norm :
             IF \/ displayPrefixLen(displayLine) > Len(norm.out)
                \/ SubSeq(displayLine, 1, displayPrefixLen(displayLine))
                       # SubSeq(norm.out, 1, displayPrefixLen(displayLine))
             THEN {NoProjection}
             ELSE projectedOnto(baseSpans, norm, displayPrefixLen(displayLine),
                                Len(displayLine)))

\* h.langs: the languages with a grammar.
GrammarLangs == {"go"}

\* highlightSynthetic; env is hin: the request and what the parser answers.
highlightSynthetic(env) ==
    IF Len(env.req.Text) = 0 THEN {<<>>}
    ELSE IF env.req.Lang \notin GrammarLangs THEN {plainSpans(env.req.Text)}
    ELSE IF ~env.synParseOK THEN {plainSpans(env.req.Text)}
    ELSE buildMergedSpans(env.req.Text, env.rawSpans)

\* highlightFromFileContext's answer when it gives up before projecting.
NoFileContext ==
    [ok |-> FALSE, spans |-> <<>>, base |-> <<>>, display |-> <<>>, projected |-> FALSE]

contextStart(line) == maxOf(1, line - defaultContextRadius)

contextEnd(lines, line) == minOf(Len(lines), line + defaultContextRadius)

\* buildSliceSource's check of the target's index in the slice.
sliceHasTarget(lines, line) ==
    /\ line - contextStart(line) >= 0
    /\ line - contextStart(line) < contextEnd(lines, line) - contextStart(line) + 1

fileContextOf(base, targetLine, display) ==
    {[ok |-> pr.ok, spans |-> pr.spans, base |-> base, display |-> display,
      projected |-> TRUE] :
        pr \in projectSpansToDisplay(base, targetLine, display)}

highlightFromFileContext(env) ==
    IF env.req.Lang \notin GrammarLangs THEN {NoFileContext}
    ELSE IF env.file.err \/ Len(env.file.lines) = 0 THEN {NoFileContext}
    ELSE IF env.req.Line < 1 \/ env.req.Line > Len(env.file.lines) THEN {NoFileContext}
    ELSE IF ~sliceHasTarget(env.file.lines, env.req.Line) THEN {NoFileContext}
    ELSE IF ~env.fileParseOK THEN {NoFileContext}
    ELSE UNION {fileContextOf(base, env.file.lines[env.req.Line],
                              IF Len(env.req.Text) = 0
                              THEN env.file.lines[env.req.Line]
                              ELSE env.req.Text) :
                   base \in buildMergedSpans(env.file.lines[env.req.Line], env.rawSpans)}

syntheticResult(env, tried) ==
    {[done |-> TRUE, spans |-> spans, fromFile |-> FALSE, base |-> tried.base,
      display |-> env.req.Text, projected |-> tried.projected] :
        spans \in highlightSynthetic(env)}

fileResult(got) ==
    [done |-> TRUE, spans |-> got.spans, fromFile |-> TRUE, base |-> got.base,
     display |-> got.display, projected |-> TRUE]

\* The results HighlightWithParser can return, each with the way it came
\* about.
HighlightWithParser(env) ==
    IF env.req.Mode = HighlightContextFile
    THEN UNION {IF got.ok THEN {fileResult(got)} ELSE syntheticResult(env, got) :
                   got \in highlightFromFileContext(env)}
    ELSE syntheticResult(env, NoFileContext)

\* ---- what the specification highlights ----

\* The most raw spans the parser yields for one line.
MaxRaw == 2

\* Byte ranges of raw spans: one beginning before the line, one inside it,
\* one beginning inside a two-byte rune, overlapping both and ending past the
\* line, an empty one.
RawRanges == {<<0 - 1, 2>>, <<0, 2>>, <<1, 9>>, <<2, 2>>}

RawSpanPool ==
    {MakeSpan(range[1], range[2], cat) : range \in RawRanges, cat \in {TokenPlain, TokenKeyword}}

RawLists == UNION {[1..n -> RawSpanPool] : n \in 0..MaxRaw}

LineTab == <<TAB>> \o Runes("a") \o <<CR>> \o Runes("b")
LineDots == Runes("x...")
LineWide == <<EACUTE>> \o Runes("a")

\* What loadFileLines gives: the lines of a file, or an error.
FilePool ==
    {[err |-> FALSE, lines |-> <<LineTab, LineDots>>],
     [err |-> FALSE, lines |-> <<LineWide>>],
     [err |-> TRUE, lines |-> <<>>]}

\* The line as the list shows it when it fits, and cut after k runes.
Shown(line) == normalizeLineForDisplayRunes(line).out

Cut(line, k) == SubSeq(Shown(line), 1, k) \o ellipsis

TextPool ==
    {<<>>, Shown(LineTab), Cut(LineTab, 5), Shown(LineDots), Cut(LineDots, 2),
     Shown(LineWide), Runes("zz")}

\* A request with what the file and the parser give for it.
highlightInput(req, file, fileParseOK, synParseOK, rawSpans) ==
    [made |-> TRUE, req |-> req, file |-> file, fileParseOK |-> fileParseOK,
     synParseOK |-> synParseOK, rawSpans |-> rawSpans]

SpanRequests ==
    {[Mode |-> mode, Lang |-> lang, Line |-> line, Text |-> text] :
        mode \in {HighlightContextSynthetic, HighlightContextFile},
        lang \in {"go", "plain"}, line \in 0..2, text \in TextPool}

SpansInit ==
    /\ hin = NoHighlight
    /\ hout = NoSpans
    /\ FilterIdle
    /\ ParseIdle
    /\ ProducerIdle
    /\ CacheIdle
    /\ UiIdle
    /\ LruIdle
    /\ QueueIdle
    /\ SemanticIdle
    /\ EditIdle
    /\ FsIdle
    /\ PassIdle

\* A worker takes a request off the task channel.
TakeRequest ==
    /\ hin = NoHighlight
    /\ \E req \in SpanRequests, file \in FilePool, fok \in BOOLEAN, sok \in BOOLEAN,
          rawSpans \in RawLists :
           hin' = highlightInput(req, file, fok, sok, rawSpans)
    /\ hout' = NoSpans
    /\ UNCHANGED outsideSpans

\* worker: spans := h.HighlightWithParser(parser, req)
Highlight ==
    /\ hin.made
    /\ ~hout.done
    /\ hout' \in HighlightWithParser(hin)
    /\ UNCHANGED <<hin, outsideSpans>>

\* worker: the spans are handed on and the loop comes round.
HandOn ==
    /\ hout.done
    /\ hin' = NoHighlight
    /\ hout' = NoSpans
    /\ UNCHANGED outsideSpans

SpansNext == TakeRequest \/ Highlight \/ HandOn

SpecSpans == SpansInit /\ [][SpansNext]_vars

\* ---- C15 ----

\* The spans tile [0, runeLen): there is one at least, none is empty, the
\* first begins at 0, each begins where the one before it ends, the last ends
\* at runeLen, and neighbours differ in category.
Tiled(spans, runeLen) ==
    /\ Len(spans) > 0
    /\ spans[1].Start = 0
    /\ spans[Len(spans)].End = runeLen
    /\ \A i \in 1..Len(spans) : spans[i].Start < spans[i].End
    /\ \A i \in 1..(Len(spans) - 1) :
           /\ spans[i].End = spans[i + 1].Start
           /\ spans[i].Cat # spans[i + 1].Cat

\* C15: whenever HighlightWithParser has returned for a request whose display
\* text is not empty, in file mode or in synthetic mode, whatever the raw
\* spans and whichever fallback was taken, the returned spans are non-empty,
\* sorted, disjoint, cover exactly [0, rune count of the display text) and no
\* two neighbours have the same category.
SpanTiling ==
    (hout.done /\ Len(hout.display) > 0) => Tiled(hout.spans, Len(hout.display))

\* Two raw spans that overlap, one of them out of range, were projected from
\* a file line onto a truncated display and came out as two spans.
OverlappingRawSpansTiled ==
    /\ hout.done
    /\ hout.fromFile
    /\ Len(hin.rawSpans) = 2
    /\ hin.rawSpans[1].Start < 0
    /\ hin.rawSpans[2].Start < hin.rawSpans[1].End
    /\ hin.rawSpans[2].End > ByteLen(hin.file.lines[hin.req.Line])
    /\ HasSuffix(hout.display, ellipsis)
    /\ Len(hout.spans) >= 2

\* Every fallback of file mode ends in spans that tile the text: the parse
\* of the file slice failed and the synthetic parse gave overlapping spans.
FallbackTiled ==
    /\ hout.done
    /\ hin.req.Mode = HighlightContextFile
    /\ ~hout.fromFile
    /\ Len(hout.spans) >= 2

\* ---- C16 ----

\* The category of the span that holds the rune at the 0-based index, or -1.
CatAt(spans, index) ==
    IF \E i \in 1..Len(spans) : spans[i].Start <= index /\ index < spans[i].End
    THEN spans[CHOOSE i \in 1..Len(spans) : spans[i].Start <= index /\ index < spans[i].End].Cat
    ELSE 0 - 1

\* The line and the display projectSpansToDisplay was called with.
ProjectedSource == hin.file.lines[hin.req.Line]

ProjectedDisplay == IF Len(hin.req.Text) = 0 THEN ProjectedSource ELSE hin.req.Text

\* The first n display runes have the category of the source rune they came
\* from.
CarriesSourceCategories(norm, n) ==
    \A i \in 1..n : CatAt(hout.spans, i - 1) = CatAt(hout.base, norm.indexMap[i])

ShownInFull(norm) ==
    ProjectedDisplay = norm.out =>
        hout.fromFile /\ CarriesSourceCategories(norm, Len(norm.out))

ShownCut(norm) ==
    \A k \in 0..Len(norm.out) :
        ProjectedDisplay = SubSeq(norm.out, 1, k) \o ellipsis =>
            /\ hout.fromFile
            /\ CarriesSourceCategories(norm, k)
            /\ \A i \in k..(k + 2) : CatAt(hout.spans, i) = TokenPlain

\* The first n runes of s, all of s when it has fewer.
FirstRunes(s, n) == SubSeq(s, 1, minOf(n, Len(s)))

PrefixMismatchFails(norm) ==
    FirstRunes(ProjectedDisplay, displayPrefixLen(ProjectedDisplay))
        # FirstRunes(norm.out, displayPrefixLen(ProjectedDisplay))
    => ~hout.fromFile

\* C16: when projectSpansToDisplay was called with a display that is the
\* source line without CR, newline as a space and each tab as 4 spaces, in
\* full or cut with a trailing "...", it succeeds, every display rune has the
\* category of the source rune it came from and the runes of the trailing
\* ellipsis are Plain; when the display's prefix differs from the normalized
\* source's, it fails.
ProjectionIntegrity ==
    (hout.done /\ hout.projected) =>
        /\ ShownInFull(normalizeLineForDisplayRunes(ProjectedSource))
        /\ ShownCut(normalizeLineForDisplayRunes(ProjectedSource))
        /\ PrefixMismatchFails(normalizeLineForDisplayRunes(ProjectedSource))

\* The same for every source line that does not itself end in "...".
ProjectionIntegrityUnlessDotsInSource ==
    (hout.done /\ hout.projected) =>
        /\ HasSuffix(ProjectedSource, ellipsis)
           \/ ShownInFull(normalizeLineForDisplayRunes(ProjectedSource))
        /\ ShownCut(normalizeLineForDisplayRunes(ProjectedSource))
        /\ PrefixMismatchFails(normalizeLineForDisplayRunes(ProjectedSource))

\* A line with a tab and a CR was projected onto its display cut with an
\* ellipsis, the tab's four spaces and the rune after it in a category that is
\* not Plain.
TabProjectedOntoCutDisplay ==
    /\ hout.done
    /\ hout.fromFile
    /\ ProjectedSource = LineTab
    /\ ProjectedDisplay = Cut(LineTab, 5)
    /\ hout.spans = <<MakeSpan(0, 5, TokenKeyword), MakeSpan(5, 8, TokenPlain)>>

\* A line that ends in "..." inside a span that is not Plain was shown in
\* full, and its last three runes came out Plain.
SourceDotsTakenForEllipsis ==
    /\ hout.done
    /\ hout.fromFile
    /\ ProjectedSource = LineDots
    /\ ProjectedDisplay = LineDots
    /\ CatAt(hout.base, 3) = TokenKeyword
    /\ CatAt(hout.spans, 3) = TokenPlain

\* A display that differs from the source made the projection fail.
ProjectionFailed ==
    /\ hout.done
    /\ hout.projected
    /\ ~hout.fromFile

\* ------------------------------------------------------------------------
\* Highlight cache (internal/highlighter): request identity and the LRU
\* ------------------------------------------------------------------------

MakeRequest(mode, lang, file, line, text) ==
    [Mode |-> mode, Lang |-> lang, File |-> file, Line |-> line, Text |-> text]

\* filepath.IsAbs on a slash-separated path.
IsAbs(path) == Len(path) > 0 /\ path[1] = SLASH

\* filepath.Join of two elements that are not empty.
Join(dir, file) == Clean(dir \o <<SLASH>> \o file)

\* normalizeRequest once the mode is known to be file: file is the cleaned
\* path.
normalizeFileRequest(h, req, file) ==
    IF file # <<>> /\ req.Line > 0
    THEN [req EXCEPT !.Mode = HighlightContextFile,
                     !.File = IF ~IsAbs(file) /\ h.root # <<>> THEN Join(h.root, file)
                              ELSE file]
    ELSE [req EXCEPT !.Mode = HighlightContextSynthetic, !.File = <<>>, !.Line = 0]

normalizeRequest(h, req) ==
    IF (IF req.Mode = "" THEN h.defaultMode ELSE req.Mode) = HighlightContextFile
    THEN normalizeFileRequest(h, req, Clean(TrimSpace(req.File)))
    ELSE [req EXCEPT !.Mode = HighlightContextSynthetic, !.File = <<>>, !.Line = 0]

cacheKeyForRequest(req) ==
    [Mode |-> req.Mode, Lang |-> req.Lang, Text |-> req.Text,
     File |-> IF req.Mode = HighlightContextFile THEN req.File ELSE <<>>,
     Line |-> IF req.Mode = HighlightContextFile THEN req.Line ELSE 0]

\* The key Lookup and Queue compute for a request.
keyOf(h, req) == cacheKeyForRequest(normalizeRequest(h, req))

newSpanLRU(capacity) ==
    [capacity |-> IF capacity <= 0 THEN 1 ELSE capacity, ll |-> <<>>, items |-> {}]

\* c.items[key]: the place in the list of the element the map holds.
elementOf(c, key) == CHOOSE i \in 1..Len(c.ll) : c.ll[i].key = key

\* list.MoveToFront of the i-th element, with the value it is to hold.
MoveToFront(ll, i, value) == <<value>> \o SubSeq(ll, 1, i - 1) \o SubSeq(ll, i + 1, Len(ll))

\* A Get that leaves the list as it is.
lruGetUntouched(c, key) ==
    IF key \notin c.items THEN [cache |-> c, ok |-> FALSE, spans |-> <<>>]
    ELSE [cache |-> c, ok |-> TRUE, spans |-> c.ll[elementOf(c, key)].spans]

\* spanLRU.Get: the cache after it, whether the key was there, the spans.
lruGet(c, key) ==
    IF key \notin c.items THEN [cache |-> c, ok |-> FALSE, spans |-> <<>>]
    ELSE [cache |-> [c EXCEPT !.ll = MoveToFront(c.ll, elementOf(c, key),
                                                 c.ll[elementOf(c, key)])],
          ok |-> TRUE, spans |-> c.ll[elementOf(c, key)].spans]

\* Set's end: the list after PushFront, cut at the back when too long.
lruShrink(c, pushed) ==
    IF Len(pushed) <= c.capacity
    THEN [c EXCEPT !.ll = pushed, !.items = c.items \cup {pushed[1].key}]
    ELSE [c EXCEPT !.ll = SubSeq(pushed, 1, Len(pushed) - 1),
                   !.items = (c.items \cup {pushed[1].key}) \ {pushed[Len(pushed)].key}]

\* spanLRU.Set; entry is the cacheEntry.
lruSet(c, entry) ==
    IF entry.key \in c.items
    THEN [c EXCEPT !.ll = MoveToFront(c.ll, elementOf(c, entry.key), entry)]
    ELSE lruShrink(c, <<entry>> \o c.ll)

\* The history of touches after key was touched, kept to the cached keys.
touchedAfter(t, key, kept) ==
    SelectSeq(SelectSeq(t, LAMBDA k : k # key) \o <<key>>, LAMBDA k : k \in kept)

\* The cacheEntry the worker stores for a request.

\* ---- what the specification looks up and stores ----

\* The largest CacheSize a highlighter is built with.
MaxCacheSize == 2

FileNone == <<>>
FileRelative == Runes(" ./a.go")
FileAbsolute == Runes("/r/a.go")

TextX == Runes("x")
TextY == Runes("y")

RequestPool ==
    {MakeRequest(HighlightContextFile, "go", file, line, TextX) :
        file \in {FileNone, FileRelative}, line \in 0..2}
    \cup {MakeRequest(HighlightContextFile, "go", FileAbsolute, 1, TextX),
          MakeRequest(HighlightContextSynthetic, "go", FileRelative, 1, TextX),
          MakeRequest(HighlightContextSynthetic, "go", FileNone, 0, TextX),
          MakeRequest("", "go", FileRelative, 1, TextX),
          MakeRequest(HighlightContextFile, "go", FileRelative, 1, TextY),
          MakeRequest(HighlightContextSynthetic, "go", FileNone, 0, TextY),
          MakeRequest(HighlightContextSynthetic, "plain", FileNone, 0, TextX)}

RootPool == {<<>>, Runes("/r")}

ModePool == {HighlightContextSynthetic, HighlightContextFile}

\* keyOf for the pool's requests under each root and default mode, computed
\* once.
PoolKeys ==
    [root \in RootPool |->
        [mode \in ModePool |->
            [req \in RequestPool |-> keyOf([root |-> root, defaultMode |-> mode], req)]]]

poolKey(h, req) == PoolKeys[h.root][h.defaultMode][req]

\* The cacheEntry the worker stores for a request, with the request
\* (history).
entryFor(h, req) ==
    [key |-> poolKey(h, req), spans |-> plainSpans(req.Text), by |-> req]

\* NewHighlighter.
LRUInit ==
    /\ hcfg \in [CacheSize : (0 - 1)..MaxCacheSize, root : RootPool, defaultMode : ModePool]
    /\ cache = newSpanLRU(hcfg.CacheSize)
    /\ touched = <<>>
    /\ lastOp = NoOp
    /\ FilterIdle
    /\ ParseIdle
    /\ ProducerIdle
    /\ CacheIdle
    /\ UiIdle
    /\ SpansIdle
    /\ QueueIdle
    /\ SemanticIdle
    /\ EditIdle
    /\ FsIdle
    /\ PassIdle

\* Highlighter.Lookup
Lookup ==
    \E req \in RequestPool :
        \E got \in {lruGet(cache, poolKey(hcfg, req))} :
            /\ cache' = got.cache
            /\ touched' = IF got.ok THEN touchedAfter(touched, poolKey(hcfg, req), cache'.items)
                          ELSE touched
            /\ lastOp' = [op |-> "lookup", req |-> req, hit |-> got.ok, evicted |-> {}]
            /\ UNCHANGED <<hcfg, outsideLRU>>

\* worker: h.cache.Set(key, spans) for a request Queue normalized.
Store ==
    \E req \in RequestPool :
        \E entry \in {entryFor(hcfg, req)} :
            /\ cache' = lruSet(cache, entry)
            /\ touched' = touchedAfter(touched, entry.key, cache'.items)
            /\ lastOp' = [op |-> "set", req |-> req, hit |-> entry.key \in cache.items,
                          evicted |-> (cache.items \cup {entry.key}) \ cache'.items]
            /\ UNCHANGED <<hcfg, outsideLRU>>

LRUNext == Lookup \/ Store

SpecLRU == LRUInit /\ [][LRUNext]_vars

\* ---- C17 ----

\* At most capacity entries, a capacity below 1 counting as 1, and the map
\* and the list hold the same keys, each once.
LRUBounded ==
    /\ cache.capacity = (IF hcfg.CacheSize <= 0 THEN 1 ELSE hcfg.CacheSize)
    /\ Len(cache.ll) <= cache.capacity
    /\ {cache.ll[i].key : i \in 1..Len(cache.ll)} = cache.items
    /\ Cardinality(cache.items) = Len(cache.ll)

\* A Set of a new key into a full cache evicts the least recently touched
\* key and no other; no other call evicts.
EvictsLeastRecentlyTouched ==
    /\ lastOp'.op = "lookup" => cache'.items = cache.items
    /\ lastOp'.op = "set" =>
           cache'.items =
               IF poolKey(hcfg, lastOp'.req) \notin cache.items
                  /\ Len(cache.ll) >= cache.capacity
               THEN (cache.items \cup {poolKey(hcfg, lastOp'.req)}) \ {Head(touched)}
               ELSE cache.items \cup {poolKey(hcfg, lastOp'.req)}

\* C17: after any sequence of Get and Set calls the cache holds at most
\* capacity entries (a capacity <= 0 is 1), its map and its list contain the
\* same keys, and a Set of a new key that exceeds the capacity evicts exactly
\* the entry least recently touched by a Get hit or a Set.
LRUCache == []LRUBounded /\ [][EvictsLeastRecentlyTouched]_vars

\* A full cache of capacity 2 took a new key on a Set and evicted one.
EvictedFromFullCache ==
    /\ hcfg.CacheSize = 2
    /\ lastOp.op = "set"
    /\ ~lastOp.hit
    /\ Cardinality(lastOp.evicted) = 1
    /\ Len(cache.ll) = 2

\* A cache built with CacheSize -1 held one entry and evicted it.
EvictedAtCapacityOne ==
    /\ hcfg.CacheSize < 0
    /\ lastOp.op = "set"
    /\ Cardinality(lastOp.evicted) = 1
    /\ Len(cache.ll) = 1

\* ---- C20 ----

\* The mode a request asks for.
AskedMode(req) == IF req.Mode = "" THEN hcfg.defaultMode ELSE req.Mode

\* The request is one the statement calls synthetic: asked for in synthetic
\* mode, or in file mode with a line below 1 or, when emptyFileToo, with no
\* file.
CountsAsSynthetic(req, emptyFileToo) ==
    \/ AskedMode(req) = HighlightContextSynthetic
    \/ req.Line <= 0
    \/ emptyFileToo /\ TrimSpace(req.File) = <<>>

\* The path of a file request, resolved against the root.
ResolvedPath(req) ==
    IF IsAbs(Clean(TrimSpace(req.File))) \/ hcfg.root = <<>>
    THEN Clean(TrimSpace(req.File))
    ELSE Join(hcfg.root, Clean(TrimSpace(req.File)))

SameLangAndText(a, b) == a.Lang = b.Lang /\ a.Text = b.Text

\* Two synthetic requests of one language and text: they share an entry.
MustShare(a, b, emptyFileToo) ==
    /\ CountsAsSynthetic(a, emptyFileToo)
    /\ CountsAsSynthetic(b, emptyFileToo)
    /\ SameLangAndText(a, b)

\* Requests that may share an entry: the two above, or two file requests
\* equal in language, text, resolved path and line.
MayShare(a, b, emptyFileToo) ==
    \/ MustShare(a, b, emptyFileToo)
    \/ /\ ~CountsAsSynthetic(a, emptyFileToo)
       /\ ~CountsAsSynthetic(b, emptyFileToo)
       /\ SameLangAndText(a, b)
       /\ ResolvedPath(a) = ResolvedPath(b)
       /\ a.Line = b.Line

\* A Lookup that hit found an entry stored for a request it may share with;
\* a Lookup that missed left no entry stored for a request it must share
\* with.
LookupsShare(emptyFileToo) ==
    lastOp.op = "lookup" =>
        IF lastOp.hit
        THEN MayShare(lastOp.req, cache.ll[1].by, emptyFileToo)
        ELSE \A i \in 1..Len(cache.ll) : ~MustShare(lastOp.req, cache.ll[i].by, emptyFileToo)

\* C20: requests that normalize to synthetic mode, file-mode requests with
\* an empty file or a line <= 0 among them, share one cache entry whenever
\* their language and text are equal, whatever their file and line; two
\* file-mode requests share an entry only if language, text, resolved path
\* and line are all equal; a file-mode request never shares an entry with a
\* synthetic one.
CacheIdentity == LookupsShare(TRUE)

\* The same with a file-mode request without a file counted as a file
\* request, its path the cleaned empty path ".".
CacheIdentityEmptyFileAsPath == LookupsShare(FALSE)

\* A file-mode request without a file, line 2, missed the entry stored for
\* the same text without a file, line 1.
EmptyFileRequestsApart ==
    /\ lastOp.op = "lookup"
    /\ ~lastOp.hit
    /\ lastOp.req = MakeRequest(HighlightContextFile, "go", FileNone, 2, TextX)
    /\ \E i \in 1..Len(cache.ll) :
           cache.ll[i].by = MakeRequest(HighlightContextFile, "go", FileNone, 1, TextX)

\* A file-mode request with line 0 hit the entry of a synthetic request with
\* another file and line; a relative path hit the entry stored under the
\* absolute one.
SyntheticShared ==
    /\ lastOp.op = "lookup"
    /\ lastOp.hit
    /\ lastOp.req = MakeRequest(HighlightContextFile, "go", FileNone, 0, TextX)
    /\ cache.ll[1].by = MakeRequest(HighlightContextSynthetic, "go", FileRelative, 1, TextX)

ResolvedPathShared ==
    /\ lastOp.op = "lookup"
    /\ lastOp.hit
    /\ lastOp.req = MakeRequest(HighlightContextFile, "go", FileRelative, 1, TextX)
    /\ cache.ll[1].by = MakeRequest(HighlightContextFile, "go", FileAbsolute, 1, TextX)

\* ------------------------------------------------------------------------
\* Highlight queue (internal/highlighter): Queue, the workers, the file lines
\* ------------------------------------------------------------------------

\* The goroutines that call Queue, and the workers NewHighlighter starts.
CallerIds == {"c1", "c2"}
WorkerIds == {"w1", "w2"}

\* The capacity of h.tasks (workers*256 in NewHighlighter).
TaskCap == 1

\* A goroutine outside Queue: no request at hand, and the key of none.
NoRequest == MakeRequest("", "", <<>>, 0, <<>>)

IdleCaller == [pc |-> "idle", req |-> NoRequest, key |-> cacheKeyForRequest(NoRequest)]

IdleWorker == [pc |-> "idle", req |-> MakeRequest("", "", <<>>, 0, <<>>)]

FileMissing == Runes("b.go")

\* The files ReadLinesNormalized can read.
DiskFiles == {Runes("a.go")}

QueuePool ==
    {MakeRequest(HighlightContextFile, "go", FileRelative, 1, TextX),
     MakeRequest(HighlightContextFile, "go", FileRelative, 2, TextX),
     MakeRequest(HighlightContextFile, "go", FileMissing, 1, TextX),
     MakeRequest(HighlightContextSynthetic, "go", FileNone, 0, <<>>)}

\* NewHighlighter, with its workers waiting on the channel.
QueueInit ==
    /\ hcfg = [CacheSize |-> 1, root |-> <<>>, defaultMode |-> HighlightContextFile]
    /\ cache = newSpanLRU(hcfg.CacheSize)
    /\ touched = <<>>
    /\ lastOp = NoOp
    /\ tasks = <<>>
    /\ hpending = {}
    /\ callers = [c \in CallerIds |-> IdleCaller]
    /\ hworkers = [w \in WorkerIds |-> IdleWorker]
    /\ fileLines = {}
    /\ reads = [path \in {} |-> 0]
    /\ FilterIdle
    /\ ParseIdle
    /\ ProducerIdle
    /\ CacheIdle
    /\ UiIdle
    /\ SpansIdle
    /\ SemanticIdle
    /\ EditIdle
    /\ FsIdle
    /\ PassIdle

\* What the steps of Queue and of the workers leave alone.
queueFrame == <<hcfg, lastOp, outsideQueue>>

\* Queue: the request is normalized; an empty text returns at once.
QueueBegin(c) ==
    /\ callers[c].pc = "idle"
    /\ \E req \in QueuePool :
           \E normalized \in {normalizeRequest(hcfg, req)} :
               callers' = [callers EXCEPT ![c] =
                              IF Len(normalized.Text) = 0 THEN IdleCaller
                              ELSE [pc |-> "get", req |-> normalized,
                                    key |-> cacheKeyForRequest(normalized)]]
    /\ UNCHANGED <<cache, touched, tasks, hpending, hworkers, fileLines, reads, queueFrame>>

\* Queue: h.cache.Get(key); a hit returns.
QueueGet(c) ==
    /\ callers[c].pc = "get"
    /\ \E got \in {lruGet(cache, callers[c].key)} :
           /\ cache' = got.cache
           /\ touched' = IF got.ok THEN touchedAfter(touched, callers[c].key, cache'.items)
                         ELSE touched
           /\ callers' = [callers EXCEPT ![c] =
                             IF got.ok THEN IdleCaller ELSE [@ EXCEPT !.pc = "mark"]]
    /\ UNCHANGED <<tasks, hpending, hworkers, fileLines, reads, queueFrame>>

\* A mark that marks nothing.
pendingUnmarked(marked, key) == marked

\* h.pending[key] = struct{}{}
pendingMarked(marked, key) == marked \cup {key}

\* Queue, under pendingMu: a key already pending returns, else it is marked.
QueueMark(c) ==
    /\ callers[c].pc = "mark"
    /\ IF callers[c].key \in hpending
       THEN /\ callers' = [callers EXCEPT ![c] = IdleCaller]
            /\ UNCHANGED hpending
       ELSE /\ callers' = [callers EXCEPT ![c].pc = "send"]
            /\ hpending' = pendingMarked(hpending, callers[c].key)
    /\ UNCHANGED <<cache, touched, tasks, hworkers, fileLines, reads, queueFrame>>

\* Queue's select: the send when the channel has room, the default when not.
QueueSend(c) ==
    /\ callers[c].pc = "send"
    /\ IF Len(tasks) < TaskCap
       THEN /\ tasks' = Append(tasks, callers[c].req)
            /\ callers' = [callers EXCEPT ![c] = IdleCaller]
       ELSE /\ callers' = [callers EXCEPT ![c].pc = "unmark"]
            /\ UNCHANGED tasks
    /\ UNCHANGED <<cache, touched, hpending, hworkers, fileLines, reads, queueFrame>>

\* A default branch that returns with the mark left in place.
pendingKept(marked, key) == marked

\* delete(h.pending, key)
pendingUnmarkedBy(marked, key) == marked \ {key}

\* Queue's default branch, under pendingMu: delete(h.pending, key)
QueueUnmark(c) ==
    /\ callers[c].pc = "unmark"
    /\ hpending' = pendingUnmarkedBy(hpending, callers[c].key)
    /\ callers' = [callers EXCEPT ![c] = IdleCaller]
    /\ UNCHANGED <<cache, touched, tasks, hworkers, fileLines, reads, queueFrame>>

\* worker: a request is received; HighlightWithParser goes to loadFileLines
\* for a file-mode request of a language with a grammar.
WorkerTake(w) ==
    /\ hworkers[w].pc = "idle"
    /\ Len(tasks) > 0
    /\ tasks' = Tail(tasks)
    /\ hworkers' = [hworkers EXCEPT ![w] =
                       [pc |-> IF Head(tasks).Mode = HighlightContextFile
                                  /\ Head(tasks).Lang \in GrammarLangs
                               THEN "load" ELSE "set",
                        req |-> Head(tasks)]]
    /\ UNCHANGED <<cache, touched, hpending, callers, fileLines, reads, queueFrame>>

\* loadFileLines, under the read lock: are the path's lines kept?
WorkerCheckLines(w) ==
    /\ hworkers[w].pc = "load"
    /\ hworkers' = [hworkers EXCEPT ![w].pc =
                       IF hworkers[w].req.File \in fileLines THEN "set" ELSE "read"]
    /\ UNCHANGED <<cache, touched, tasks, hpending, callers, fileLines, reads, queueFrame>>

\* The count of successful reads with one more for the path.
readsAfter(counts, path) ==
    [p \in DOMAIN counts \cup {path} |->
        IF p = path THEN (IF p \in DOMAIN counts THEN counts[p] + 1 ELSE 1) ELSE counts[p]]

\* loadFileLines, under no lock: ReadLinesNormalized(path); an error ends
\* the file path.
WorkerRead(w) ==
    /\ hworkers[w].pc = "read"
    /\ IF hworkers[w].req.File \in DiskFiles
       THEN /\ reads' = readsAfter(reads, hworkers[w].req.File)
            /\ hworkers' = [hworkers EXCEPT ![w].pc = "keep"]
       ELSE /\ hworkers' = [hworkers EXCEPT ![w].pc = "set"]
            /\ UNCHANGED reads
    /\ UNCHANGED <<cache, touched, tasks, hpending, callers, fileLines, queueFrame>>

\* loadFileLines, under the write lock: h.fileLines[path] = lines
WorkerKeep(w) ==
    /\ hworkers[w].pc = "keep"
    /\ fileLines' = fileLines \cup {hworkers[w].req.File}
    /\ hworkers' = [hworkers EXCEPT ![w].pc = "set"]
    /\ UNCHANGED <<cache, touched, tasks, hpending, callers, reads, queueFrame>>

\* A worker that computes the spans and stores nothing.
WorkerSetSkipped(w) ==
    /\ hworkers[w].pc = "set"
    /\ hworkers' = [hworkers EXCEPT ![w].pc = "unmark"]
    /\ UNCHANGED <<cache, touched, tasks, hpending, callers, fileLines, reads, queueFrame>>

\* worker: h.cache.Set(key, spans)
WorkerSet(w) ==
    /\ hworkers[w].pc = "set"
    /\ \E entry \in {[key |-> cacheKeyForRequest(hworkers[w].req),
                      spans |-> plainSpans(hworkers[w].req.Text),
                      by |-> hworkers[w].req]} :
           /\ cache' = lruSet(cache, entry)
           /\ touched' = touchedAfter(touched, entry.key, cache'.items)
    /\ hworkers' = [hworkers EXCEPT ![w].pc = "unmark"]
    /\ UNCHANGED <<tasks, hpending, callers, fileLines, reads, queueFrame>>

\* worker, under pendingMu: delete(h.pending, key)
WorkerUnmark(w) ==
    /\ hworkers[w].pc = "unmark"
    /\ hpending' = hpending \ {cacheKeyForRequest(hworkers[w].req)}
    /\ hworkers' = [hworkers EXCEPT ![w] = IdleWorker]
    /\ UNCHANGED <<cache, touched, tasks, callers, fileLines, reads, queueFrame>>

QueueNext ==
    \/ \E c \in CallerIds :
           QueueBegin(c) \/ QueueGet(c) \/ QueueMark(c) \/ QueueSend(c) \/ QueueUnmark(c)
    \/ \E w \in WorkerIds :
           \/ WorkerTake(w)
           \/ WorkerCheckLines(w)
           \/ WorkerRead(w)
           \/ WorkerKeep(w)
           \/ WorkerSet(w)
           \/ WorkerUnmark(w)

SpecQueue == QueueInit /\ [][QueueNext]_vars

\* ---- C18 ----

\* The keys Queue can compute.
QueueKeys == {keyOf(hcfg, req) : req \in QueuePool}

\* The tasks for a key in the channel or in a worker's hands.
Outstanding(key) ==
    Cardinality({i \in 1..Len(tasks) : cacheKeyForRequest(tasks[i]) = key})
    + Cardinality({w \in WorkerIds :
                      hworkers[w].pc # "idle" /\ cacheKeyForRequest(hworkers[w].req) = key})

AtMostOneOutstanding == \A key \in QueueKeys : Outstanding(key) <= 1

\* A call that finds its key in the cache, or in the pending set, returns
\* and the channel is as it was.
FoundKeyDrops ==
    \A c \in CallerIds :
        (\/ callers[c].pc = "get" /\ callers'[c].pc # "get"
               /\ callers[c].key \in cache.items
         \/ callers[c].pc = "mark" /\ callers'[c].pc # "mark"
               /\ callers[c].key \in hpending)
        => callers'[c].pc = "idle" /\ tasks' = tasks /\ hpending' = hpending

QueuedWhileCached ==
    \E i \in 1..Len(tasks) : cacheKeyForRequest(tasks[i]) \in cache.items

\* The channel was full and the call took its mark back.
FullChannelDropped ==
    \E c \in CallerIds : callers[c].pc = "unmark" /\ Len(tasks) = TaskCap

\* ---- C19 ----

\* C19: for the lifetime of a highlighter each file path is read from disk
\* at most once after a successful read, however the workers that ask for
\* lines of one path interleave.
FileReadOnce == \A path \in DOMAIN reads : reads[path] <= 1

\* Each worker reads a path at most once successfully.
FileReadOncePerWorker == \A path \in DOMAIN reads : reads[path] <= Cardinality(WorkerIds)

\* Once a path's lines are kept and no worker is between its look at the
\* map and its store, the path is read no more.
KeptPathNotReadAgain ==
    \A path \in fileLines :
        (\A w \in WorkerIds : hworkers[w].pc \notin {"read", "keep"}) => reads'[path] = reads[path]

FileLinesKept == [][KeptPathNotReadAgain]_vars

\* Two workers with requests for two lines of one file both read it.
FileReadTwice == \E path \in DOMAIN reads : reads[path] = 2

\* A worker found the lines kept and read nothing.
FileLinesReused ==
    \E w \in WorkerIds :
        /\ hworkers[w].pc = "set"
        /\ hworkers[w].req.Mode = HighlightContextFile
        /\ hworkers[w].req.File \in fileLines
        /\ reads[hworkers[w].req.File] = 1

\* ------------------------------------------------------------------------
\* semantic.go: one declaration line under each visibility prefix
\* ------------------------------------------------------------------------

\* Every keyword semanticScoreForDeclaration names.
DeclKeywords ==
    TypeKeywords \cup {KwConstructor} \cup FunctionKeywords \cup ConstKeywords
        \cup ModuleKeywords \cup FieldKeywords \cup LocalKeywords \cup ParamKeywords

\* What follows the keyword: a plain name, a receiver and a name, a
\* constructor name, a method taking self.
DeclRests == {Runes("x"), Runes("(r) get()"), Runes("new_x(&self)"), Runes("get(self, a)")}

NoPrefix == <<>>
PublicPrefixes == {Runes("public "), Runes("export "), Runes("pub "), Runes("pub(crate) ")}
InternalPrefixes == {Runes("protected "), Runes("Internal ")}
PrivatePrefixes == {Runes("private ")}
VisibilityPrefixes == {NoPrefix} \cup PublicPrefixes \cup InternalPrefixes \cup PrivatePrefixes

\* The line of a declaration under a prefix, as the candidate's text holds it.
declLine(prefix, d) == prefix \o d.keyword \o <<SPACE>> \o d.rest

SemanticInit ==
    /\ SemanticIdle
    /\ FilterIdle
    /\ ParseIdle
    /\ ProducerIdle
    /\ CacheIdle
    /\ UiIdle
    /\ SpansIdle
    /\ LruIdle
    /\ QueueIdle
    /\ EditIdle
    /\ FsIdle
    /\ PassIdle

\* A candidate's declaration line comes in.
TakeDeclaration ==
    /\ sdecl = NoDecl
    /\ \E keyword \in DeclKeywords, rest \in DeclRests :
           sdecl' = [keyword |-> keyword, rest |-> rest]
    /\ sscores' = {}
    /\ UNCHANGED outsideSemantic

\* computeSemanticScore on the line under one prefix.
ScoreLine(prefix) ==
    /\ sdecl # NoDecl
    /\ \A s \in sscores : s.prefix # prefix
    /\ sscores' = sscores \cup
           {[prefix |-> prefix, score |-> computeSemanticScore(declLine(prefix, sdecl))]}
    /\ UNCHANGED <<sdecl, outsideSemantic>>

DropDeclaration ==
    /\ sdecl # NoDecl
    /\ sdecl' = NoDecl
    /\ sscores' = {}
    /\ UNCHANGED outsideSemantic

SemanticNext ==
    \/ TakeDeclaration
    \/ \E prefix \in VisibilityPrefixes : ScoreLine(prefix)
    \/ DropDeclaration

SpecSemantic == SemanticInit /\ [][SemanticNext]_vars

\* ------------------------------------------------------------------------
\* Properties of the semantic classifier
\* ------------------------------------------------------------------------

ScoredUnder(prefixes) == {s \in sscores : s.prefix \in prefixes}

\* The weights of the keyword table.
BaseWeights == {460, 410, 340, 300, 260, 220, 170, 110, 80}

\* The keywords the modifier loop takes before semanticScoreForDeclaration
\* sees them.
AbsorbedKeywords == DeclKeywords \cap NeutralModifiers

StaticScoredAsModifier ==
    /\ sdecl = [keyword |-> Runes("static"), rest |-> Runes("x")]
    /\ [prefix |-> NoPrefix, score |-> 0] \in sscores
    /\ [prefix |-> Runes("public "), score |-> 35] \in sscores

\* ------------------------------------------------------------------------
\* The ranker over keys that differ in case only
\* (TestFilterCandidatesPrefersMatchingCase)
\* ------------------------------------------------------------------------

MaxCaseCands == 2

\* The test's candidates leave SemanticScore at its zero value.
CaseCandidate(file, key, text) ==
    [File |-> Runes(file), Key |-> Runes(key), Text |-> Runes(text), SemanticScore |-> 0]

LowerCaseKey == CaseCandidate("a.go", "myFunc", "func myFunc() {}")
UpperCaseKey == CaseCandidate("b.go", "MyFunc", "func MyFunc() {}")

CasePool == {LowerCaseKey, UpperCaseKey, CaseCandidate("c.go", "other", "func other() {}")}

CaseLists == UNION {{WithIDs(l) : l \in [1..n -> CasePool]} : n \in 1..MaxCaseCands}

CaseQueries == {Runes("MyF"), Runes("myf"), Runes("MYF"), Runes("mf")}

CaseInit ==
    /\ candidates \in CaseLists
    /\ query \in CaseQueries
    /\ settings \in SettingsPool
    /\ fpc = "full"
    /\ job = NoJob
    /\ res = NoResults
    /\ ParseIdle
    /\ ProducerIdle
    /\ CacheIdle
    /\ UiIdle
    /\ SpansIdle
    /\ LruIdle
    /\ QueueIdle
    /\ SemanticIdle
    /\ EditIdle
    /\ FsIdle
    /\ PassIdle

SpecCase == CaseInit /\ [][Next]_vars

\* The keys of a result, best first.
KeysOf(result) == [i \in 1..Len(result.items) |-> candidates[result.items[i].Index + 1].Key]

TestCandidates == WithIDs(<<LowerCaseKey, UpperCaseKey>>)

\* C22: over the candidates myFunc (a.go) and MyFunc (b.go), FilterCandidates
\* with "MyF" returns both with MyFunc first, and with "myf" both with myFunc
\* first.
PrefersMatchingCase ==
    (candidates = TestCandidates /\ fpc # "full") =>
        /\ query = Runes("MyF") => KeysOf(res.full) = <<Runes("MyFunc"), Runes("myFunc")>>
        /\ query = Runes("myf") => KeysOf(res.full) = <<Runes("myFunc"), Runes("MyFunc")>>

\* The mixed-case query has been filtered over the test's candidates.
MixedCaseFiltered ==
    /\ candidates = TestCandidates
    /\ query = Runes("MyF")
    /\ fpc # "full"
    /\ Len(res.full.items) = 2
    /\ res.full.items[1].Index = 1
    /\ res.full.items[1].Score > res.full.items[2].Score

\* The lower-case query has been filtered over them: myFunc is ahead by its
\* score, not by its index.
LowerCaseFiltered ==
    /\ candidates = TestCandidates
    /\ query = Runes("myf")
    /\ fpc # "full"
    /\ Len(res.full.items) = 2
    /\ res.full.items[1].Index = 0
    /\ res.full.items[1].Score > res.full.items[2].Score

\* ------------------------------------------------------------------------
\* runRGPass's return and the done value
\* ------------------------------------------------------------------------

\* What runRGPass made of the child's exit: 0 and 1 are clean returns, any
\* other code is an error whose text is the trimmed standard error when the
\* child wrote one.
ExitJudged ==
    rgret.cause = "wait" =>
        /\ rgret.failed <=> rgret.code \notin {0, 1}
        /\ ~rgret.failed => rgret.msg = <<>>
        /\ (rgret.failed /\ TrimSpace(rgret.stderr) # <<>>) =>
               rgret.msg = RgFailedText \o TrimSpace(rgret.stderr)
        /\ (rgret.failed /\ TrimSpace(rgret.stderr) = <<>>) =>
               rgret.msg = RgFailedText \o ExitStatusText \o <<48 + rgret.code>>

\* The goroutine after a return of runRGPass: an error is on its way to done
\* under the name of the pass that failed, or is the one value sent; a clean
\* return leaves nil to report.
ExitReported ==
    /\ rgret.failed =>
           /\ err = PassError(pass)
           /\ ppc \in {"report", "close done", "close out", "exited"}
           /\ Reported => doneSent = <<PassError(pass)>>
    /\ (rgret.cause # "none" /\ ~rgret.failed) =>
           /\ err = "nil"
           /\ Reported => doneSent = <<"nil">>
    /\ Len(doneSent) <= 1

\* After a failed pass no pass is started and no candidate is sent.
NoPassAfterFailure ==
    rgret.failed => pass' = pass /\ rgret' = rgret /\ sent' = sent /\ scanned' = scanned

\* A clean return of the declaration pass is followed by the config pass
\* when the pattern is the default one, and by the nil report otherwise.
CleanReturnGoesOn ==
    (rgret' # rgret /\ rgret'.cause = "wait" /\ ~rgret'.failed) =>
        IF pass = 1 /\ shouldIncludeConfigPass(effectivePattern(pattern))
        THEN ppc' = "start" /\ pass' = 2
        ELSE ppc' = "report" /\ err' = "nil"

\* C23: a grep pass whose child exits with code 1 is a success (no error,
\* the run goes on to the next pass or to a nil done value); any other
\* non-zero exit puts a single error on done that carries the captured
\* standard-error text, and the config pass is not started after a failed
\* declaration pass.
GrepExitHandling ==
    /\ []ExitJudged
    /\ []ExitReported
    /\ [][NoPassAfterFailure /\ CleanReturnGoesOn]_vars

\* The declaration pass's child exited with 2 after writing " boom": the one
\* value on done is the declaration error, and no config pass ran.
DeclarationPassFailed ==
    /\ ppc = "exited"
    /\ pattern = Runes("")
    /\ pass = 1
    /\ rgret = waitResult(2, <<SPACE>> \o Runes("boom") \o <<10>>)
    /\ rgret.msg = Runes("rg failed: boom")
    /\ doneSent = <<"search declarations">>

\* The declaration pass's child exited with 1 and the config pass is about
\* to start.
NoMatchThenConfigPass ==
    /\ pass = 2
    /\ ppc = "start"
    /\ rgret.cause = "wait" /\ rgret.code = 1
    /\ err = "nil"

\* A failure that wrote nothing but blanks is reported by its exit status.
BlankStderrFailed ==
    /\ Reported
    /\ rgret.cause = "wait" /\ rgret.stderr = <<SPACE, 10>>
    /\ rgret.msg = Runes("rg failed: exit status 2")

\* ------------------------------------------------------------------------
\* main.go: the controller's handlers, each as one step, under query edits,
\* cursor moves, resizes and the clock
\* ------------------------------------------------------------------------

\* cfg.Debounce in steps of the clock, the longest query typed, and the
\* number of candidates the scan finds.
Debounce == 2
MaxQuery == 2
MaxEmit == 2

\* The runes a key press adds: a, A.
KeyRunes == {97, 65}

\* The rows of a page after a resize.
PagePool == {1}

KeyedCandidate(newID, file, key, text) ==
    [ID |-> newID, File |-> Runes(file), Line |-> newID, Col |-> 1, Key |-> Runes(key),
     Text |-> Runes(text), SemanticScore |-> computeSemanticScore(Runes(text))]

\* What the scan finds, in the order emitMatch sends it.
Emitted ==
    <<KeyedCandidate(1, "x.go", "ab", "var ab"),
      KeyedCandidate(2, "y.go", "Ab", "var Ab")>>

\* The vector of a warm start: the first candidate of an earlier scan.
EditCached == <<Emitted[1]>>

\* main() up to p.Run(), with the declaration pass of the producer running.
EditInit ==
    /\ pattern = Runes("todo")
    /\ ppc = "scan" /\ err = "nil" /\ rgret = NoReturn /\ pass = 1 /\ scanned = 0
    /\ seen = {} /\ id = 0 /\ pending = <<>>
    /\ out = <<>> /\ outClosed = FALSE /\ done = <<>> /\ doneClosed = FALSE
    /\ cancelled = FALSE /\ sent = <<>> /\ dropped = 0 /\ received = <<>>
    /\ doneSent = <<>>
    /\ \E cached \in {<<>>, EditCached} : model = useCachedIndex(newModel, cached)
    /\ tick = NoTick
    /\ hist = NoHistory
    /\ FilterIdle
    /\ ParseIdle
    /\ CacheIdle
    /\ SpansIdle
    /\ LruIdle
    /\ QueueIdle
    /\ SemanticIdle
    /\ FsIdle
    /\ PassIdle

\* emitMatch sends the next candidate of the scan.
EmitKeyed ==
    /\ ppc = "scan"
    /\ id < MaxEmit
    /\ Len(out) < OutCap
    /\ id' = id + 1
    /\ out' = Append(out, Emitted[id + 1])
    /\ sent' = Append(sent, Emitted[id + 1])
    /\ UNCHANGED <<pattern, ppc, err, rgret, pass, scanned, seen, pending, outClosed, done,
                   doneClosed, cancelled, dropped, received, doneSent,
                   uiVars, hist, outsideEdit>>

\* The pass ends, cleanly or with exit code 2, and the goroutine goes to
\* report nil or the error.
EndScan ==
    /\ ppc = "scan"
    /\ ppc' = "report"
    /\ \E ret \in {waitResult(code, <<>>) : code \in {0, 2}} :
          /\ rgret' = ret
          /\ err' = IF ret.failed THEN PassError(pass) ELSE err
    /\ UNCHANGED <<pattern, pass, scanned, seen, id, pending, out, outClosed, done,
                   doneClosed, cancelled, sent, dropped, received, doneSent,
                   uiVars, hist, outsideEdit>>

\* time.Now() moves on by one step.
ClockPass ==
    /\ model.untilDue >= 0 \/ hist.sinceKey >= 0
    /\ model' = [model EXCEPT !.untilDue = IF @ >= 0 THEN @ - 1 ELSE @]
    /\ hist' = [hist EXCEPT !.sinceKey = IF @ < 0 \/ @ >= Debounce THEN 0 - 1 ELSE @ + 1]
    /\ UNCHANGED <<tick, producerVars, outsideEdit>>

queryEditedAtOnce(mm, next) ==
    scheduleFilter([mm EXCEPT !.input = next,
                              !.queryRaw = TrimRunes(next),
                              !.queryRunes = LowerRunes(TrimRunes(next)),
                              !.resetSelectionOnFilter = TRUE],
                   0)

\* Update(tea.KeyMsg) for a key that changes the input's value to `next`.
queryEdited(mm, next) ==
    scheduleFilter([mm EXCEPT !.input = next,
                              !.queryRaw = TrimRunes(next),
                              !.queryRunes = LowerRunes(TrimRunes(next)),
                              !.resetSelectionOnFilter = TRUE],
                   Debounce)

KeyEdit ==
    /\ \E next \in {Append(model.input, r) : r \in {k \in KeyRunes : Len(model.input) < MaxQuery}}
                   \cup {SubSeq(model.input, 1, Len(model.input) - 1) :
                            x \in {y \in {0} : Len(model.input) > 0}} :
          model' = queryEdited(model, next)
    /\ hist' = [NoHistory EXCEPT !.sinceKey = 0]
    /\ UNCHANGED <<tick, producerVars, outsideEdit>>

\* Update(tea.KeyMsg) for up and down: moveCursor(delta).
KeyMove ==
    /\ \E delta \in {0 - 1, 1} :
          model' = ensureCursor([model EXCEPT !.cursor = @ + delta])
    /\ hist' = [NoHistory EXCEPT !.sinceKey = hist.sinceKey, !.resized = hist.resized,
                                 !.swapped = hist.swapped]
    /\ UNCHANGED <<tick, producerVars, outsideEdit>>

\* Update(tea.WindowSizeMsg) for a window whose list shows `page` rows.
WindowResize ==
    /\ \E page \in PagePool : model' = scheduleFilter([model EXCEPT !.page = page], 0)
    /\ hist' = [NoHistory EXCEPT !.sinceKey = hist.sinceKey, !.resized = TRUE,
                                 !.swapped = hist.swapped]
    /\ UNCHANGED <<tick, producerVars, outsideEdit>>

\* drainProducer's loop over what the channel holds: at most DrainMax turns.
RECURSIVE drainLoop(_, _, _, _)
drainLoop(mm, queue, turns, needFilter) ==
    IF turns = 0 \/ Len(queue) = 0
    THEN [mm |-> mm, queue |-> queue, turns |-> turns, needFilter |-> needFilter]
    ELSE Bind(appendArrival(mm, queue[1], needFilter), LAMBDA got :
            drainLoop(got[1], Tail(queue), turns - 1, got[2]))

\* drainProducer(DrainMax): the loop, the select that finds the channel
\* closed, and the deferred scheduleFilter.
drainProducer(mm, queue, closed) ==
    IF mm.producerOut # "open"
    THEN [mm |-> mm, queue |-> queue]
    ELSE Bind(drainLoop(mm, queue, DrainMax, FALSE), LAMBDA d :
            [mm |-> drainReturn([d.mm EXCEPT !.producerOut =
                                    IF d.turns > 0 /\ closed THEN "nil" ELSE @],
                                d.needFilter),
             queue |-> d.queue])

drainProducerDone(mm, reports) ==
    IF ~mm.scanDone /\ mm.producerDone = "open" /\ Len(reports) > 0
    THEN [mm |-> producerReported(mm, reports[1]), reports |-> Tail(reports)]
    ELSE [mm |-> mm, reports |-> reports]

\* time.Now().After(m.filterDue) as the tick evaluates it: true when the due
\* time lies a step of the clock back; when the tick itself set the due time
\* to time.Now() a moment earlier, the clock has moved on or it has not.
pastDue(before, mm) ==
    IF mm.untilDue < 0 THEN {TRUE}
    ELSE IF mm.untilDue = 0 /\ (~before.filterPending \/ before.untilDue # 0) THEN {TRUE, FALSE}
    ELSE {FALSE}

\* Update(tickMsg): the drain, the done check, the filter when it is due,
\* ensureCursor.
TickHandled(drained, reported) ==
    /\ out' = drained.queue
    /\ received' = received \o SubSeq(out, 1, Len(out) - Len(drained.queue))
    /\ done' = reported.reports
    /\ \E after \in pastDue(model, reported.mm) :
       IF reported.mm.filterPending /\ after
       THEN /\ \E applied \in applyFilter(reported.mm) : model' = ensureCursor(applied)
            /\ hist' = [hist EXCEPT !.strategy = filterStrategy(reported.mm),
                                    !.wanted = selectedID(reported.mm),
                                    !.reset = reported.mm.resetSelectionOnFilter,
                                    !.swapped = @ \/ (model.rebuildFromScan
                                                      /\ ~reported.mm.rebuildFromScan)]
       ELSE /\ model' = ensureCursor(reported.mm)
            /\ hist' = [hist EXCEPT !.strategy = "idle", !.wanted = 0, !.reset = FALSE,
                                    !.swapped = @ \/ (model.rebuildFromScan
                                                      /\ ~reported.mm.rebuildFromScan)]

Tick ==
    /\ \E drained \in {drainProducer(model, out, outClosed)} :
       \E reported \in {drainProducerDone(drained.mm, done)} :
          TickHandled(drained, reported)
    /\ UNCHANGED <<pattern, ppc, err, rgret, pass, scanned, seen, id, pending, outClosed,
                   doneClosed, cancelled, sent, dropped, doneSent, tick, outsideEdit>>

EditNext ==
    \/ EmitKeyed
    \/ EndScan
    \/ SendDone
    \/ CloseDone
    \/ CloseOut
    \/ ClockPass
    \/ KeyEdit
    \/ KeyMove
    \/ WindowResize
    \/ Tick

SpecEdit == EditInit /\ [][EditNext]_vars

\* ------------------------------------------------------------------------
\* Properties of the controller under query edits
\* ------------------------------------------------------------------------

\* applyFilter ran in the last tick (and nothing but the producer and the
\* clock moved since).
FilterApplied == hist.strategy # "idle"

\* What the full filter returns for the vector and query at hand.
FullFilter == FilterCandidatesWithQueryRunes(model.candidates, model.queryRaw, model.queryRunes)

IndicesOf(items) == {items[i].Index : i \in 1..Len(items)}

\* C24: right after applyFilter returns, whichever branch it took, the
\* filtered list is what FilterCandidatesWithQueryRunes returns for the
\* candidates and the raw and lower-cased query at hand.
IncrementalEqualsFull ==
    FilterApplied => \E full \in FullFilter : model.filtered.items = full.items

\* What holds of every branch: the filtered list has the candidates of the
\* full filter, each once.
IncrementalSameCandidates ==
    FilterApplied =>
        \E full \in FullFilter :
            /\ IndicesOf(model.filtered.items) = IndicesOf(full.items)
            /\ Len(model.filtered.items) = Len(full.items)

\* What holds of the branches that score: the list is the full filter's
\* when the filter ran on a reset (a query edit or the swap) and took the
\* full filter.
FullBranchEqualsFull ==
    (FilterApplied /\ hist.strategy = "full") =>
        \E full \in FullFilter : model.filtered.items = full.items

\* The query went from "a" to "A" and applyFilter returned without a new
\* list: the list is in the order of "a".
CaseEditKeptOldOrder ==
    /\ hist.strategy = "none"
    /\ model.queryRaw = <<65>>
    /\ Len(model.filtered.items) = 2
    /\ model.filtered.items[1].Index = 0
    /\ \A full \in FullFilter : full.items[1].Index = 1

\* Each branch has been taken with both candidates in the vector.
AppendBranchTaken == hist.strategy = "append" /\ Len(model.filtered.items) = 2
RefineBranchTaken == hist.strategy = "refine" /\ Len(model.candidates) = 2
FullBranchTaken ==
    hist.strategy = "full" /\ Len(model.queryRunes) > 0 /\ Len(model.filtered.items) = 2

\* The filtered list accounts for every candidate of the vector.
CaughtUp == model.lastFilterCandidateN = Len(model.candidates)

\* Candidates the last filter run has not seen, under a query that filters.
Unfiltered ==
    /\ Len(model.queryRunes) > 0
    /\ ~model.rebuildFromScan
    /\ Len(model.candidates) > model.lastFilterCandidateN

\* The safety half of C25: while candidates wait under a non-empty query a
\* filter run is scheduled.
RefreshScheduled == Unfiltered => model.filterPending

UserInput == KeyEdit \/ KeyMove \/ WindowResize

\* C25: no lost refresh.  Candidates appended to the visible vector under a
\* non-empty query leave a filter run scheduled, so once the producer has
\* finished and the ticks keep firing the filtered list accounts for every
\* candidate, with no further key press or resize.
NoLostRefresh == RefreshScheduled /\ (model.producerOut = "nil" /\ ~model.filterPending => (CaughtUp \/ ~Unfiltered))

\* The state the refresh is lost in: applyFilter returned early on an edit
\* that left the lower-cased query as it was, resetSelectionOnFilter stayed
\* set, and a candidate arrived after it.
RefreshLost ==
    /\ Unfiltered
    /\ ~model.filterPending
    /\ model.resetSelectionOnFilter
    /\ model.producerOut = "nil"

\* Once lost, the refresh stays lost until a key press or a resize: no tick
\* and no passing of time schedules the run.
LostStaysLost == [][(RefreshLost /\ ~UserInput) => RefreshLost']_vars

\* What holds: the run is scheduled unless resetSelectionOnFilter is left
\* set, and it is left set by the early return only.
RefreshScheduledUnlessResetLeft ==
    (Unfiltered /\ ~model.resetSelectionOnFilter) => model.filterPending

\* An arrival under a non-empty query with the flag clear: the filter is due
\* at once.
ArrivalScheduled ==
    /\ Unfiltered
    /\ ~model.resetSelectionOnFilter
    /\ model.filterPending
    /\ model.untilDue = 0

\* ------------------------------------------------------------------------
\* The done check against the producer's goroutine
\* ------------------------------------------------------------------------

\* drainProducerDone took nil from the done channel and handed a vector to
\* SaveIndexCache.
CompletionObserved == model.scanDone /\ model.errMsg = "" /\ model.saving # <<>>

IsPrefixOf(s, t) == Len(s) <= Len(t) /\ SubSeq(t, 1, Len(s)) = s

\* C26: completion is observed after the data.  When the controller observes
\* the producer's success, the vector it hands to SaveIndexCache (and swaps
\* in after a warm start) holds every candidate the producer emitted,
\* whatever the interleaving of the goroutine with the drain and the done
\* check.
CompletionAfterData == CompletionObserved => model.saving[1] = sent

\* What holds: the vector handed over is a prefix of what the producer
\* emitted, and it is handed over once.
SavedIsPrefixOfSent ==
    CompletionObserved => (Len(model.saving) = 1 /\ IsPrefixOf(model.saving[1], sent))

\* The drain found the channel empty, the producer then sent a candidate and
\* nil on done, and the done check of the same tick handed the vector over
\* without the candidate, which is still in the channel.
CompletionOvertook ==
    /\ CompletionObserved
    /\ tick.pc = "filter"
    /\ Len(model.saving[1]) < Len(sent)
    /\ Len(out) > 0

\* The same after a warm start: the vector swapped in lacks a candidate.
SwapOvertook ==
    /\ CompletionObserved
    /\ model.status = <<"index refreshed", 0>>
    /\ Len(sent) > 0

\* The order the sentence describes: everything drained, then nil read.
CompletionAfterDrain ==
    /\ CompletionObserved
    /\ Len(sent) = 2
    /\ model.saving[1] = sent

\* ------------------------------------------------------------------------
\* The cursor after applyFilter
\* ------------------------------------------------------------------------

\* applyFilter computed a list on the last tick (it did not return early).
Recomputed == hist.strategy \in {"append", "refine", "full"}

\* The id of the candidate of the list's entry i (from 0).
EntryID(i) == model.candidates[model.filtered.items[i + 1].Index + 1].ID

\* The entries of the new list that show the candidate selected before.
EntriesOfWanted == {i \in 0..(Len(model.filtered.items) - 1) : EntryID(i) = hist.wanted}

AtTop == model.cursor = 0 /\ model.offset = 0

\* C27: selection preservation.  When applyFilter recomputes the list without
\* a reset request and a candidate was selected beforehand, the cursor is
\* afterwards on the entry of that candidate if the new list has one, and
\* otherwise at cursor 0, offset 0; when a reset was requested or the new
\* list is empty, cursor and offset are 0.
SelectionPreserved ==
    Recomputed =>
        IF hist.reset \/ Len(model.filtered.items) = 0 THEN AtTop
        ELSE IF hist.wanted # 0 /\ EntriesOfWanted # {}
        THEN model.cursor \in EntriesOfWanted
        ELSE hist.wanted # 0 => AtTop

\* The cursor was on "ab", the only entry under the query "A"; "Ab" arrived
\* and was merged in ahead of it; the cursor followed "ab" to the second row.
SelectionFollowed ==
    /\ hist.strategy = "append"
    /\ ~hist.reset
    /\ hist.wanted = 1
    /\ Len(model.filtered.items) = 2
    /\ EntryID(0) = 2
    /\ model.cursor = 1
    /\ model.offset = 1

\* A query edit with the cursor on the second row: the new list still has
\* the candidate, on its second row, and the cursor is at the top.
SelectionReset ==
    /\ Recomputed
    /\ hist.reset
    /\ hist.wanted # 0
    /\ Len(model.filtered.items) = 2
    /\ EntryID(1) = hist.wanted
    /\ AtTop

\* Without a reset request the candidate selected before is always in the
\* new list: the recomputation is then an append or a full filter of the
\* same query over a vector that only grew.
SelectedStays == (Recomputed /\ ~hist.reset /\ hist.wanted # 0) => EntriesOfWanted # {}

\* ------------------------------------------------------------------------
\* The debounce
\* ------------------------------------------------------------------------

\* The last tick called applyFilter no later than Debounce steps of the
\* clock after the last key press that changed the query.
AppliedWithinDebounce == FilterApplied /\ hist.sinceKey >= 0

\* The statement with the resize as the one exception: a filter applied
\* within the debounce of a key press follows a resize.
DebounceButForResize == AppliedWithinDebounce => hist.resized

\* C28: debounce.  After a key press that changes the query at time t no
\* tick applies the filter at a time <= t + debounce (a further key press
\* restarts the delay, arrivals while the edit is pending do not bring the
\* due time forward), unless in between the window is resized or the rescan
\* after a warm start is swapped in, each of which makes the pending filter
\* due at once.
DebounceHeld == AppliedWithinDebounce => (hist.resized \/ hist.swapped)

\* The ordinary case: the edit's filter ran once the debounce had passed,
\* with a candidate that arrived in between and neither resize nor swap.
DebouncedFilterRan ==
    /\ hist.strategy = "full"
    /\ hist.reset
    /\ hist.sinceKey < 0
    /\ ~hist.resized /\ ~hist.swapped
    /\ Len(model.queryRunes) > 0
    /\ Len(model.filtered.items) > 0

\* The swap cut the debounce short: the filter of the edited query ran
\* in the tick of the swap or the next, before the delay was over.
SwapCutDebounce ==
    /\ AppliedWithinDebounce
    /\ hist.swapped /\ ~hist.resized
    /\ hist.strategy = "full"
    /\ Len(model.queryRunes) > 0

\* A resize cut it short.
ResizeCutDebounce ==
    /\ AppliedWithinDebounce
    /\ hist.resized /\ ~hist.swapped
    /\ hist.strategy = "full"
    /\ Len(model.queryRunes) > 0

\* While the edit is pending and neither exception has occurred, the due
\* time is the key press's: arrivals have not moved it.
DueTimeKept ==
    (hist.sinceKey >= 0 /\ ~hist.resized /\ ~hist.swapped /\ model.filterPending
     /\ model.resetSelectionOnFilter)
        => model.untilDue = Debounce - hist.sinceKey

\* An arrival was drained while the edit was pending.
ArrivedWhilePending ==
    /\ hist.sinceKey > 0 /\ ~hist.resized /\ ~hist.swapped
    /\ model.filterPending /\ model.resetSelectionOnFilter
    /\ Len(model.candidates) > model.lastFilterCandidateN
    /\ Len(model.queryRunes) > 0

\* ------------------------------------------------------------------------
\* The range filter under an empty query
\* ------------------------------------------------------------------------

\* The entries lo..hi-1 in index order, each with score 0.
InIndexOrder(lo, hi) ==
    [i \in 1..(hi - lo) |-> [Index |-> lo + i - 1, Score |-> 0, OpenLine |-> 0, OpenCol |-> 0]]

\* C30: every public operation of the ranker, given an empty query, returns
\* its input domain in index order with score 0; in particular
\* FilterCandidatesRangeWithQueryRunes(C, start, end, empty, empty) returns
\* the entries start..end-1 in index order, each with score 0, as the full
\* filter does on an empty query.
EmptyQueryRangeInOrder ==
    /\ (Returned("left") /\ Blank(query)) => res.left.items = InIndexOrder(0, res.split)
    /\ (Returned("right") /\ Blank(query)) =>
          res.right.items = InIndexOrder(res.split, Len(candidates))

\* What the range filter returns under an empty query: every entry of the
\* range, each scored as a match of all three channels with channel score 0
\* (3000 + semantic weight + 80), in the order of the sort.
EmptyQueryRangeScored ==
    (Returned("right") /\ Blank(query)) =>
        /\ {res.right.items[i].Index : i \in 1..Len(res.right.items)}
              = res.split..(Len(candidates) - 1)
        /\ Len(res.right.items) = Len(candidates) - res.split
        /\ \A i \in 1..Len(res.right.items) :
              res.right.items[i].Score
                 = 3080 + candidateSemanticScore(candidates[res.right.items[i].Index + 1])

\* The range filter returned two entries for an empty query with the later
\* candidate first, while the full filter of the same query returned them in
\* index order with score 0.
EmptyQueryRangeReordered ==
    /\ Returned("right")
    /\ Blank(query)
    /\ res.split = 0
    /\ Len(res.right.items) = 2
    /\ res.right.items[1].Index = 1
    /\ res.right.items[1].Score > res.right.items[2].Score
    /\ res.full.items = InIndexOrder(0, 2)

\* ------------------------------------------------------------------------
\* scoreCandidate's composition, on candidates whose channels compete
\* ------------------------------------------------------------------------

\* The x's between the a and the b of the long key.
GapLen == 150
MaxScoreCands == 2

\* An identifier in which the query "ab" matches with a long gap: the key
\* matches, with a score far below zero.
GapKey == <<97>> \o [i \in 1..GapLen |-> 120] \o <<98>>

ScoreCandidate(file, key, text) ==
    [File |-> Runes(file), Key |-> key, Text |-> Runes(text),
     SemanticScore |-> computeSemanticScore(Runes(text))]

ScorePool ==
    {ScoreCandidate("z.go", GapKey, "var ab"),
     ScoreCandidate("z.go", Runes("ab"), "var ab"),
     ScoreCandidate("ab.go", GapKey, "let kk"),
     ScoreCandidate("z.go", Runes("kk"), "func ab()"),
     ScoreCandidate("ab.go", Runes("kk"), "let kk")}

ScoreLists == UNION {{WithIDs(l) : l \in [1..n -> ScorePool]} : n \in 1..MaxScoreCands}

ScoreQueries == {Runes("ab"), Runes("Ab")}

ScoreInit ==
    /\ candidates \in ScoreLists
    /\ query \in ScoreQueries
    /\ settings \in SettingsPool
    /\ fpc = "full"
    /\ job = NoJob
    /\ res = NoResults
    /\ ParseIdle
    /\ ProducerIdle
    /\ CacheIdle
    /\ UiIdle
    /\ SpansIdle
    /\ LruIdle
    /\ QueueIdle
    /\ SemanticIdle
    /\ EditIdle
    /\ FsIdle
    /\ PassIdle

SpecScore == ScoreInit /\ [][Next]_vars

\* The three channels of a candidate under the query, as scoreCandidate
\* reads them: score and whether the channel counts as matched.
Channel(runes, loose) ==
    Bind(fuzzyScore(runes, query, LowerRunes(query), TRUE), LAMBDA f :
        [score |-> f.score,
         ok |-> f.ok /\ ~(loose /\ rejectLooseFuzzyMatch(f.score, f.span,
                                                         nonSpaceRuneCount(LowerRunes(query))))])

KeyTerm(c) == 3000 + 3 * Channel(c.Key, FALSE).score
TextTerm(c) == 1800 + 2 * Channel(c.Text, TRUE).score - 60
PathTerm(c) == 1200 + Channel(c.File, TRUE).score - 120

MaxOf(S) == CHOOSE v \in S : \A w \in S : w <= v

BothBonus(c) == IF Channel(c.Key, FALSE).ok /\ Channel(c.Text, TRUE).ok THEN 80 ELSE 0

\* The score in the listed order, the semantic weight joining the key's term.
ListedOrderScore(c) ==
    MaxOf({-1048576}
          \cup {KeyTerm(c) + candidateSemanticScore(c) : x \in {y \in {0} : Channel(c.Key, FALSE).ok}}
          \cup {TextTerm(c) : x \in {y \in {0} : Channel(c.Text, TRUE).ok}}
          \cup {PathTerm(c) : x \in {y \in {0} : Channel(c.File, TRUE).ok}})
    + BothBonus(c)

\* The score with the semantic weight added to the largest term.
WeightLastScore(c) ==
    MaxOf({-1048576}
          \cup {KeyTerm(c) : x \in {y \in {0} : Channel(c.Key, FALSE).ok}}
          \cup {TextTerm(c) : x \in {y \in {0} : Channel(c.Text, TRUE).ok}}
          \cup {PathTerm(c) : x \in {y \in {0} : Channel(c.File, TRUE).ok}})
    + (IF Channel(c.Key, FALSE).ok THEN candidateSemanticScore(c) ELSE 0)
    + BothBonus(c)

FullFiltered == fpc # "full" /\ job = NoJob

\* The statement as listed: each entry's score is
\* max(3000 + 3*key + semantic, 1800 + 2*text - 60, 1200 + path - 120) over
\* the matched channels, plus 80 when key and text both matched.
ScoreInListedOrder ==
    FullFiltered =>
        \A i \in 1..Len(res.full.items) :
            res.full.items[i].Score = ListedOrderScore(candidates[res.full.items[i].Index + 1])

\* C29: score composition.  From a very low score, a matched key gives
\* max(score, 3000 + 3*key_score), a matched text max(score, 1800 +
\* 2*text_score - 60), a matched path max(score, 1200 + path_score - 120);
\* then the semantic weight is added if the key matched, and 80 if key and
\* text both matched: max(3000 + 3*key_score, 1800 + 2*text_score - 60,
\* 1200 + path_score - 120) over the matched channels, plus the semantic
\* weight of a matched key, plus the bonus.
ScoreComposition ==
    FullFiltered =>
        \A i \in 1..Len(res.full.items) :
            res.full.items[i].Score = WeightLastScore(candidates[res.full.items[i].Index + 1])

\* The candidate whose key matches far worse than its text.
TextBeatsKey == ScoreCandidate("z.go", GapKey, "var ab")

\* It has been scored under "ab": key and text matched, the text's term is
\* the largest, and the score is that term plus the semantic weight plus 80.
TextBeatsKeyScored ==
    /\ FullFiltered
    /\ query = Runes("ab")
    /\ candidates = WithIDs(<<TextBeatsKey>>)
    /\ Len(res.full.items) = 1
    /\ TextTerm(TextBeatsKey) > KeyTerm(TextBeatsKey)
    /\ res.full.items[1].Score
          = TextTerm(TextBeatsKey) + candidateSemanticScore(TextBeatsKey) + 80
    /\ candidateSemanticScore(TextBeatsKey) > 0

\* The usual case, in which the two orders agree: the key's term is the
\* largest.
KeyBeatsText ==
    /\ FullFiltered
    /\ query = Runes("ab")
    /\ candidates = WithIDs(<<ScoreCandidate("z.go", Runes("ab"), "var ab")>>)
    /\ Len(res.full.items) = 1
    /\ res.full.items[1].Score = ListedOrderScore(candidates[1])
    /\ res.full.items[1].Score = KeyTerm(candidates[1]) + candidateSemanticScore(candidates[1]) + 80

\* ------------------------------------------------------------------------
\* index_cache.go: SaveIndexCache and LoadIndexCache of several processes on
\* one cache path.  A file is an inode holding blocks; the cache path and
\* path + ".tmp" are links to inodes; a process writes through its own
\* descriptor at its own offset.
\* ------------------------------------------------------------------------

\* The processes that save, and the blocks a record takes on disk (one
\* write of the buffered writer each).
MaxSavers == 2
MaxBlocks == 2

\* Block `part` of the `total` blocks of the record process `by` encodes.
Block(by, part, total) == [by |-> by, part |-> part, total |-> total]

\* What a write past the end of a truncated file leaves in between.
HoleBlock == Block(0 - 1, 0, 0)

\* The record of a save, whole.
RecordOf(by, total) == [i \in 1..total |-> Block(by, i, total)]

\* The record an earlier run left at the cache path.
EarlierRecord == RecordOf(0, MaxBlocks)

NoSave == [pc |-> "idle", fd |-> 0, off |-> 0, total |-> 0, met |-> {}]

InProgress(p) == savers[p].pc \in {"writing", "closed"}

SaversInit ==
    /\ \/ inodes = <<>> /\ links = [final |-> 0, tmp |-> 0]
       \/ inodes = <<EarlierRecord>> /\ links = [final |-> 1, tmp |-> 0]
    /\ savers = [p \in 1..MaxSavers |-> NoSave]
    /\ lastLoad = NoLoad
    /\ FilterIdle
    /\ ParseIdle
    /\ ProducerIdle
    /\ CacheIdle
    /\ UiIdle
    /\ SpansIdle
    /\ LruIdle
    /\ QueueIdle
    /\ SemanticIdle
    /\ EditIdle
    /\ PassIdle

\* The call of process p has returned an error.
saveFailed(p) == [savers EXCEPT ![p].pc = "failed"]

\* os.Remove(tmpPath): the link goes, whoever made it.
removeTmp == [links EXCEPT !.tmp = 0]

\* os.Create(tmpPath) succeeds: the file behind the temporary path is
\* truncated if there is one and made if not; the call of p now overlaps
\* those in progress.
createTmp(p, total) ==
    /\ \E others \in {{q \in 1..MaxSavers : q # p /\ InProgress(q)}} :
          savers' = [q \in 1..MaxSavers |->
                       IF q = p
                       THEN [pc |-> "writing",
                             fd |-> IF links.tmp # 0 THEN links.tmp ELSE Len(inodes) + 1,
                             off |-> 0, total |-> total, met |-> others]
                       ELSE IF q \in others THEN [savers[q] EXCEPT !.met = @ \cup {p}]
                       ELSE savers[q]]
    /\ IF links.tmp # 0
       THEN inodes' = [inodes EXCEPT ![links.tmp] = <<>>] /\ links' = links
       ELSE inodes' = Append(inodes, <<>>) /\ links' = [links EXCEPT !.tmp = Len(inodes) + 1]

\* SaveIndexCache up to os.Create.
SaveCreate(p) ==
    /\ savers[p].pc = "idle"
    /\ \/ \E total \in 1..MaxBlocks : createTmp(p, total)
       \/ savers' = saveFailed(p) /\ UNCHANGED <<inodes, links>>
    /\ UNCHANGED <<lastLoad, outsideFs>>

\* The file after a write of `block` at offset `off` (counted in blocks).
writeAt(blocks, off, block) ==
    IF off < Len(blocks) THEN [blocks EXCEPT ![off + 1] = block]
    ELSE blocks \o [i \in 1..(off - Len(blocks)) |-> HoleBlock] \o <<block>>

\* The encoder or the flush writes the next block of p's record through p's
\* descriptor, or fails: the descriptor is closed and tmpPath removed.
SaveWriteBlock(p) ==
    /\ savers[p].pc = "writing"
    /\ savers[p].off < savers[p].total
    /\ \/ /\ inodes' = [inodes EXCEPT ![savers[p].fd] =
                           writeAt(@, savers[p].off,
                                   Block(p, savers[p].off + 1, savers[p].total))]
          /\ savers' = [savers EXCEPT ![p].off = @ + 1]
          /\ links' = links
       \/ /\ savers' = saveFailed(p)
          /\ links' = removeTmp
          /\ inodes' = inodes
    /\ UNCHANGED <<lastLoad, outsideFs>>

\* f.Close(), or its failure and the removal of tmpPath.
SaveClose(p) ==
    /\ savers[p].pc = "writing"
    /\ savers[p].off = savers[p].total
    /\ \/ savers' = [savers EXCEPT ![p].pc = "closed"] /\ links' = links
       \/ savers' = saveFailed(p) /\ links' = removeTmp
    /\ UNCHANGED <<inodes, lastLoad, outsideFs>>

\* os.Rename(tmpPath, path): the cache path now names what the temporary
\* path named; with no file at tmpPath, or on another error, the call
\* removes tmpPath and fails.
SaveRenameTmp(p) ==
    /\ savers[p].pc = "closed"
    /\ \/ /\ links.tmp # 0
          /\ links' = [final |-> links.tmp, tmp |-> 0]
          /\ savers' = [savers EXCEPT ![p].pc = "done"]
       \/ /\ links' = removeTmp
          /\ savers' = saveFailed(p)
    /\ UNCHANGED <<inodes, lastLoad, outsideFs>>

\* LoadIndexCache of any process: it opens the cache path and reads what the
\* file holds.
LoadFile ==
    /\ lastLoad' = [made |-> TRUE,
                    blocks |-> IF links.final = 0 THEN <<>> ELSE inodes[links.final]]
    /\ UNCHANGED <<inodes, links, savers, outsideFs>>

SaversNext ==
    \/ \E p \in 1..MaxSavers : SaveCreate(p)
    \/ \E p \in 1..MaxSavers : SaveWriteBlock(p)
    \/ \E p \in 1..MaxSavers : SaveClose(p)
    \/ \E p \in 1..MaxSavers : SaveRenameTmp(p)
    \/ LoadFile

SpecSavers == SaversInit /\ [][SaversNext]_vars

\* ------------------------------------------------------------------------
\* Properties of the cache file under concurrent saves
\* ------------------------------------------------------------------------

\* The blocks are one save's record, whole and nothing else.
CompleteRecord(blocks) ==
    /\ Len(blocks) > 0
    /\ blocks = RecordOf(blocks[1].by, Len(blocks))
    /\ blocks[1].total = Len(blocks)

\* What is at the cache path: no file (the empty sequence), or its blocks.
FinalBlocks == IF links.final = 0 THEN <<>> ELSE inodes[links.final]

AbsentOrComplete(blocks) == blocks = <<>> \/ CompleteRecord(blocks)

\* C31: atomic cache replacement.  For every interleaving of SaveIndexCache
\* and LoadIndexCache calls on one cache path, calls of separate processes
\* included, the file at the cache path is at every moment absent or the
\* complete record of a single save, and a load never reads a partly written
\* or mixed record.
AtomicReplacement ==
    /\ (links.final # 0 => CompleteRecord(inodes[links.final]))
    /\ (lastLoad.made => AbsentOrComplete(lastLoad.blocks))

\* No save has run while another was in progress.
NoOverlap == \A p \in 1..MaxSavers : savers[p].met = {}

\* What holds: as long as no two saves overlap, the cache path holds no
\* file or one save's whole record, and so does every load.
AtomicWithoutOverlap ==
    NoOverlap =>
        /\ (links.final # 0 => CompleteRecord(inodes[links.final]))
        /\ (lastLoad.made => AbsentOrComplete(lastLoad.blocks))

\* A save that fails leaves the file at the cache path as it was.
FailedSaveKeepsRecord ==
    [][\A p \in 1..MaxSavers :
          (savers[p].pc # "failed" /\ savers'[p].pc = "failed") =>
              (links'.final = links.final /\ FinalBlocks' = FinalBlocks)]_vars

\* Two saves overlapped: the first renamed the file both were writing while
\* the second had written its first block only, and a load read that.
PartialRecordLoaded ==
    /\ lastLoad.made
    /\ Len(lastLoad.blocks) = 1
    /\ lastLoad.blocks[1].total = 2
    /\ \E p \in 1..MaxSavers : savers[p].pc = "done"

\* The cache path holds blocks of two saves after both have returned.
MixedRecordLeft ==
    /\ links.final # 0
    /\ ~CompleteRecord(inodes[links.final])
    /\ \A p \in 1..MaxSavers : savers[p].pc \in {"done", "failed"}
    /\ {inodes[links.final][i].by : i \in 1..Len(inodes[links.final])} = {1, 2}

\* A save alone replaced the earlier record, with a second save after it.
ReplacedInTurn ==
    /\ NoOverlap
    /\ \A p \in 1..MaxSavers : savers[p].pc = "done"
    /\ lastLoad.made /\ CompleteRecord(lastLoad.blocks)
    /\ CompleteRecord(FinalBlocks)
    /\ FinalBlocks # lastLoad.blocks
    /\ Len(inodes) = 3

\* ------------------------------------------------------------------------
\* The controller after a failed scan
\* ------------------------------------------------------------------------

\* The producer sent an error on done and the done check has read it.
ScanFailed == model.scanDone /\ doneSent # <<>> /\ doneSent[1] # "nil"

\* The state the controller is in after the error: the message is that of
\* the failed pass, no vector was handed to SaveIndexCache, and after a warm
\* start the cached vector is still the visible one.
FailureRecorded ==
    ScanFailed =>
        /\ model.errMsg = doneSent[1]
        /\ model.errMsg = PassError(1)
        /\ model.producerDone = "nil"
        /\ model.saving = <<>>
        /\ model.status[1] # "index refreshed"
        /\ model.rebuildFromScan => model.candidates = EditCached
        /\ ~model.rebuildFromScan => IsPrefixOf(model.candidates, sent)

\* The tick that reads the error changes the vector and the list by what
\* its drain received and its filter computed, and by nothing else: the done
\* check itself leaves the model as the drain left it, but for the message
\* and the two marks.
FailureStep ==
    (~model.scanDone /\ model'.scanDone /\ done # <<>> /\ done[1] # "nil") =>
        \E drained \in {drainProducer(model, out, outClosed)} :
        \E reported \in {drainProducerDone(drained.mm, done)} :
            /\ reported.mm = [drained.mm EXCEPT !.scanDone = TRUE, !.producerDone = "nil",
                                                !.errMsg = done[1]]
            /\ model'.rebuildFromScan = model.rebuildFromScan
            /\ model'.candidates = drained.mm.candidates
            /\ model'.saving = model.saving

\* After the error a query edit still schedules its filter, and a filter
\* that runs lists the candidates the full filter lists.
StillFiltering ==
    ScanFailed =>
        /\ (hist.sinceKey = 0 /\ ~hist.resized) =>
              (model.filterPending /\ model.untilDue = Debounce)
        /\ FilterApplied =>
              \E full \in FullFilter : IndicesOf(model.filtered.items) = IndicesOf(full.items)

\* C32: scan failure handling.  When the producer reports an error the
\* controller records the message, marks the scan done, starts no cache
\* save and leaves the candidate vector and the filtered list as they were
\* (after a warm start the cached candidates stay and are not replaced by
\* the partial scan); query edits and filtering go on afterwards.
ScanFailureHandled == []FailureRecorded /\ []StillFiltering /\ [][FailureStep]_vars

\* After a warm start the scan sent a candidate and failed; the cached
\* vector is still shown, the candidate sits in the buffer, and a query typed
\* after the error has been filtered over the cached vector.
FilteredAfterWarmFailure ==
    /\ ScanFailed
    /\ model.rebuildFromScan
    /\ Len(model.scanCandidates) > 0
    /\ model.candidates = EditCached
    /\ hist.strategy = "full"
    /\ Len(model.queryRunes) > 0
    /\ Len(model.filtered.items) = 1

\* After a cold start: the candidates received before the error are kept
\* and filtered.
FilteredAfterColdFailure ==
    /\ ScanFailed
    /\ ~model.rebuildFromScan
    /\ Len(model.candidates) = 2
    /\ hist.strategy = "full"
    /\ Len(model.queryRunes) > 0
    /\ Len(model.filtered.items) = 2

\* ---------------------------------------------------------------------
\* Cancellation of the producer (producer.go 21-75, 79-127).
\* ---------------------------------------------------------------------

\* The producer goroutine is scheduled: each of its own steps that stays
\* enabled is taken.  The child's output ends (rg exits, or is killed by
\* exec.CommandContext once the context is done), so the scan loop is fair
\* too.  Nothing is assumed about the consumer: Receive and ReceiveDone
\* carry no fairness, and Cancel none either.
SpecProducerFair ==
    /\ SpecProducer
    /\ WF_vars(Begin)
    /\ WF_vars(StartPass)
    /\ WF_vars(ScanLine \/ EndPass)
    /\ WF_vars(SendCandidate \/ SendCancelled)
    /\ WF_vars(SendDone)
    /\ WF_vars(CloseDone)
    /\ WF_vars(CloseOut)

ProducerFinished ==
    /\ ppc = "exited"
    /\ Len(doneSent) = 1
    /\ doneClosed
    /\ outClosed

\* C33: once the context is cancelled the producer goroutine finishes,
\* whether or not the consumer ever receives again: it has sent exactly one
\* value on the done channel and closed both channels.
CancellationTerminates == cancelled ~> ProducerFinished

\* The goroutine finished after a cancellation that found it blocked on a
\* full candidate channel, and the consumer never received anything.
FinishedOnFullChannel ==
    /\ ProducerFinished
    /\ cancelled
    /\ rgret = contextError
    /\ Len(out) = OutCap
    /\ received = <<>>
    /\ pending # <<>>

\* ---------------------------------------------------------------------
\* The two passes of the producer (producer.go 29-72).
\* ---------------------------------------------------------------------

\* The config pass is entered only for the default declaration pattern,
\* which an empty pattern stands for.
ConfigPassOnlyForDefault ==
    pass = 2 => TrimSpace(pattern) \in {<<>>, DefaultRGPattern}

\* Every emission of the declaration pass precedes every emission of the
\* config pass.
DeclarationsFirst ==
    /\ Len(sentPass) = Len(sent)
    /\ \A i \in 1..Len(sentPass) : sentPass[i] \in {1, 2} /\ sentPass[i] <= pass
    /\ \A i, j \in 1..Len(sentPass) : i < j => sentPass[i] <= sentPass[j]

\* One id counter and one dedupe set serve both passes: the ids of the
\* emissions count up from 1 across the pass boundary, no location is
\* emitted twice whichever passes found it, and every emitted location is
\* in the set.
SharedCounterAndSet ==
    /\ \A i \in 1..Len(sent) : sent[i].ID = i
    /\ id = Len(sent) + Len(pending)
    /\ \A i, j \in 1..Len(sent) :
          i # j => <<sent[i].File, sent[i].Line, sent[i].Col>>
                    # <<sent[j].File, sent[j].Line, sent[j].Col>>
    /\ \A i \in 1..Len(sent) :
          [file |-> sent[i].File, line |-> sent[i].Line, col |-> sent[i].Col] \in seen

\* The config pass starts in the step that ends the declaration pass with
\* a nil return, with no emission in flight, and takes over id and seen.
ConfigPassStart ==
    /\ pass' # pass =>
          \/ pass = 0 /\ pass' = 1
          \/ /\ pass = 1 /\ pass' = 2
             /\ ppc = "scan" /\ ppc' = "start"
             /\ ~rgret'.failed
             /\ err' = "nil"
             /\ pending = <<>>
             /\ id' = id /\ seen' = seen
    /\ (pass = 2 /\ pass' = 2) => (id' >= id /\ seen \subseteq seen')

\* C34: the config-entry pass runs only when the trimmed pattern is the
\* default declaration pattern (an empty pattern counts as the default) and
\* starts only after the declaration pass has returned nil, so declaration
\* candidates are all emitted before config candidates, and both passes
\* use one dedupe set and one id counter.
PassOrdering ==
    /\ [](ConfigPassOnlyForDefault /\ DeclarationsFirst /\ SharedCounterAndSet)
    /\ [][ConfigPassStart]_vars

\* Two declarations were emitted, then the config pass dropped a location
\* the declaration pass had emitted and emitted a new one with the next id.
ConfigAfterDeclarations ==
    /\ sentPass = <<1, 1, 2>>
    /\ dropped = 1
    /\ sent[3].ID = 3
    /\ pass = 2

\* The first record of the config pass was dropped for a location the
\* declaration pass had emitted, and its second record waits in emitMatch
\* with the next id.
ConfigDroppedDeclaration ==
    /\ sentPass = <<1, 1>>
    /\ pass = 2 /\ scanned = 2
    /\ dropped = 1
    /\ ppc = "send"
    /\ pending[1].ID = 3

\* ---------------------------------------------------------------------
\* The drain of a tick (main.go 296-326).
\* ---------------------------------------------------------------------

\* A tick has received at most DrainMax candidates, and fewer while its
\* loop is still turning.
DrainCounted ==
    /\ tick.drained <= DrainMax
    /\ tick.pc = "drain" => tick.drained < DrainMax

\* The select of the loop has a default: whatever the producer is doing, a
\* tick inside drainProducer can take its next step.
DrainNeverWaits ==
    tick.pc = "drain" => ENABLED (DrainReceive \/ DrainStop)

\* producerOut is nil only after the channel was found closed and drained.
NilAfterClose == model.producerOut = "nil" => (outClosed /\ out = <<>>)

\* Every receive is a turn of the loop of the tick in progress and counts
\* towards its limit; a turn that finds the channel empty ends the drain
\* without a receive, and sets producerOut to nil when the channel is
\* closed; a nil producerOut stays nil and nothing is received any more.
DrainStep ==
    /\ received' # received =>
          /\ tick.pc = "drain"
          /\ tick'.drained = tick.drained + 1
          /\ received' = Append(received, out[1])
          /\ model.producerOut = "open"
    /\ (tick.pc = "drain" /\ tick' # tick /\ out = <<>>) =>
          /\ tick'.pc = "done"
          /\ received' = received
          /\ (outClosed /\ model.producerOut = "open") => model'.producerOut = "nil"
          /\ ~outClosed => model'.producerOut = model.producerOut
    /\ model.producerOut = "nil" =>
          (model'.producerOut = "nil" /\ received' = received /\ out' = out)
    /\ tick.pc = "idle" /\ tick'.pc = "drain" => tick'.drained = 0

\* C35: a tick receives at most DrainMax (4,000 in the program) candidates
\* and never waits on the producer: on an empty channel the drain returns
\* at once, and once the channel is closed and drained the controller never
\* reads from it again.
DrainBoundedNonBlocking ==
    /\ [](DrainCounted /\ DrainNeverWaits /\ NilAfterClose)
    /\ [][DrainStep]_vars

\* The drain returned at its limit and left a candidate in the channel.
DrainStoppedAtLimit ==
    /\ tick.pc = "done"
    /\ tick.drained = DrainMax
    /\ Len(out) > 0
    /\ model.producerOut = "open"

\* A later tick entered the drain with producerOut already nil.
DrainAfterClose ==
    /\ tick.pc = "drain"
    /\ model.producerOut = "nil"
    /\ Len(received) = 2

\* ---------------------------------------------------------------------
\* Queue on a full channel (classify.go 536-562).
\* ---------------------------------------------------------------------

\* The calls of Queue that hold a mark they have not yet sent or withdrawn.
CallInProgress(key) ==
    \E c \in CallerIds : callers[c].pc \in {"send", "unmark"} /\ callers[c].key = key

\* A key is pending only while a call of Queue is between its mark and its
\* return, or a task for it is in the channel or with a worker.
NoLeakedMark ==
    \A key \in hpending : Outstanding(key) >= 1 \/ CallInProgress(key)

\* A call of Queue can always take its next step: no step of it waits for
\* room in the channel or for a worker.
QueueNeverBlocks ==
    \A c \in CallerIds :
        callers[c].pc # "idle" =>
            ENABLED (QueueGet(c) \/ QueueMark(c) \/ QueueSend(c) \/ QueueUnmark(c))

\* The select on a full channel takes the default and leaves the channel as
\* it is; the call then returns with its key out of the pending set; a
\* call returns only by a cache hit, a pending key, a send or that delete;
\* and a call that reaches the pending check while nothing is outstanding
\* for its key marks it and goes on to the select.
QueueReturn ==
    \A c \in CallerIds :
        /\ (callers[c].pc = "send" /\ callers'[c].pc # "send" /\ Len(tasks) >= TaskCap)
              => (callers'[c].pc = "unmark" /\ tasks' = tasks /\ hpending' = hpending)
        /\ (callers[c].pc = "unmark" /\ callers'[c].pc # "unmark")
              => /\ callers'[c].pc = "idle"
                 /\ hpending' = hpending \ {callers[c].key}
                 /\ tasks' = tasks
        /\ (callers[c].pc \in {"get", "mark", "send", "unmark"} /\ callers'[c].pc = "idle")
              => \/ callers[c].pc = "get" /\ callers[c].key \in cache.items
                 \/ callers[c].pc = "mark" /\ callers[c].key \in hpending
                 \/ callers[c].pc = "send" /\ tasks' = Append(tasks, callers[c].req)
                 \/ callers[c].pc = "unmark"
        /\ (/\ callers[c].pc = "mark" /\ callers'[c].pc # "mark"
            /\ Outstanding(callers[c].key) = 0 /\ ~CallInProgress(callers[c].key))
              => (callers'[c].pc = "send" /\ callers[c].key \in hpending')

\* C36: Queue never blocks and never leaks a pending mark: on a full task
\* channel the request is dropped and its key is taken out of the pending
\* set before Queue returns, so a key is pending only if a task for it is
\* in the channel or being processed (or a call is between mark and
\* return), and a later Queue of the same request can enqueue it.
QueueDropsCleanly ==
    /\ [](NoLeakedMark /\ QueueNeverBlocks)
    /\ [][QueueReturn]_vars

\* A call found the channel full of another key's task and is about to
\* withdraw its mark, the only trace of its request.
DropWithdrawsMark ==
    \E c \in CallerIds :
        /\ callers[c].pc = "unmark"
        /\ Len(tasks) = TaskCap
        /\ callers[c].key \in hpending
        /\ Outstanding(callers[c].key) = 0

\* ---------------------------------------------------------------------
\* Progress of the highlight workers (classify.go 564-576, 530-534).
\* ---------------------------------------------------------------------

\* In snav Queue is called from the controller's goroutine only (main.go
\* 433, 446): the second calling goroutine never enters Queue.
ControllerQueueNext ==
    \/ QueueBegin("c1")
    \/ QueueGet("c1")
    \/ QueueMark("c1")
    \/ QueueSend("c1")
    \/ QueueUnmark("c1")
    \/ \E w \in WorkerIds :
           \/ WorkerTake(w)
           \/ WorkerCheckLines(w)
           \/ WorkerRead(w)
           \/ WorkerKeep(w)
           \/ WorkerSet(w)
           \/ WorkerUnmark(w)

\* The worker goroutines are scheduled: a task in the channel is received
\* by some worker, and a worker that has a task goes through its steps.
\* Nothing is assumed about the callers of Queue.
SpecQueueFair ==
    /\ QueueInit
    /\ [][ControllerQueueNext]_vars
    /\ WF_vars(\E w \in WorkerIds : WorkerTake(w))
    /\ \A w \in WorkerIds :
          WF_vars(WorkerCheckLines(w) \/ WorkerRead(w) \/ WorkerKeep(w)
                  \/ WorkerSet(w) \/ WorkerUnmark(w))

\* The request Queue puts on the channel for req.
Queued(req) == normalizeRequest(hcfg, req)

InChannel(req) == \E i \in 1..Len(tasks) : tasks[i] = Queued(req)

\* A worker has just stored the spans of req: the cache holds them under
\* the key Lookup computes for req, and the key is still pending.
StoredForLookup(req) ==
    /\ \E w \in WorkerIds : hworkers[w].pc = "unmark" /\ hworkers[w].req = Queued(req)
    /\ keyOf(hcfg, req) \in cache.items
    /\ cache.ll[elementOf(cache, keyOf(hcfg, req))].spans = plainSpans(Queued(req).Text)
    /\ keyOf(hcfg, req) \in hpending

\* The key of a task stays pending while the task is in the channel or
\* with a worker.
PendingWhileOutstanding ==
    /\ \A i \in 1..Len(tasks) : cacheKeyForRequest(tasks[i]) \in hpending
    /\ \A w \in WorkerIds :
          hworkers[w].pc # "idle" => cacheKeyForRequest(hworkers[w].req) \in hpending

\* A worker takes a key out of the pending set only in the step after its
\* cache.Set, and in the step of the Set the key is in the cache.
UnmarkAfterSet ==
    \A w \in WorkerIds :
        /\ (hworkers[w].pc = "set" /\ hworkers'[w].pc # "set")
              => /\ hworkers'[w].pc = "unmark"
                 /\ cacheKeyForRequest(hworkers[w].req) \in cache'.items
                 /\ hpending' = hpending
        /\ (hworkers[w].pc # "idle" /\ hworkers'[w].pc = "idle")
              => /\ hworkers[w].pc = "unmark"
                 /\ hpending' = hpending \ {cacheKeyForRequest(hworkers[w].req)}

\* C37: under fair scheduling of the workers every request Queue placed on
\* the task channel is eventually computed and its spans stored in the
\* cache under the key Lookup uses for that request, and its key leaves the
\* pending set only after that.
HighlightProgress ==
    /\ \A req \in QueuePool : InChannel(req) ~> StoredForLookup(req)
    /\ []PendingWhileOutstanding
    /\ [][UnmarkAfterSet]_vars

\* Both workers have stored spans and hold their marks; the spans of the
\* first were evicted by the second's.
StoredThenEvicted ==
    /\ \A w \in WorkerIds : hworkers[w].pc = "unmark"
    /\ \E w \in WorkerIds : cacheKeyForRequest(hworkers[w].req) \notin cache.items
    /\ \E req \in QueuePool : StoredForLookup(req)

\* ---------------------------------------------------------------------
\* From the producer's channel to the controller's vector (main.go
\* 296-326, 161-182).
\* ---------------------------------------------------------------------

\* Every tick ends with tickCmd(), so ticks keep coming, and the steps of a
\* tick are steps of the controller's goroutine.  Nothing is assumed about
\* the producer or about resizes.
SpecUILive ==
    /\ SpecUI
    /\ WF_vars(TickBegin)
    /\ WF_vars(DrainReceive \/ DrainStop)
    /\ WF_vars(DrainDone)
    /\ WF_vars(TickFilter)

\* The vector the scan is filling: the rescan buffer during a warm start,
\* the visible vector otherwise.
FreshVector == IF model.rebuildFromScan THEN model.scanCandidates ELSE model.candidates

\* What the producer sent is what the controller appended followed by what
\* the channel still holds: each candidate once, in emission order; and the
\* candidate at index i (from 0) of the vector has id i + 1.
AppendedOnceInOrder ==
    /\ FreshVector \o out = sent
    /\ FreshVector = received
    /\ \A i \in 1..Len(FreshVector) : FreshVector[i].ID = i

\* The channel is closed and the controller has everything that was sent.
AllDrained ==
    /\ out = <<>>
    /\ model.producerOut = "nil"
    /\ FreshVector = sent

\* C38: every candidate the producer sent is appended exactly once and in
\* emission order to the controller's vector (the rescan buffer during a
\* warm start), after the producer closes its channel finitely many ticks
\* drain what is buffered, and the candidate at index i of a freshly
\* scanned vector has id i + 1.
ArrivalsAppendedInOrder ==
    /\ []AppendedOnceInOrder
    /\ outClosed ~> AllDrained

\* After the close two ticks of one receive each drained the channel into
\* the visible vector.
DrainedAfterClose ==
    /\ AllDrained
    /\ ~model.rebuildFromScan
    /\ Len(model.candidates) = 2
    /\ model.candidates[2].ID = 2

\* The same into the rescan buffer of a warm start.
BufferDrainedAfterClose ==
    /\ AllDrained
    /\ model.rebuildFromScan
    /\ Len(model.scanCandidates) = 2
    /\ Len(model.candidates) = 2

\* ---------------------------------------------------------------------
\* The filtered list (main.go 296-326, 366-413; filter.go).
\* ---------------------------------------------------------------------

FilteredInRange ==
    \A i \in 1..Len(model.filtered.items) :
        /\ 0 <= model.filtered.items[i].Index
        /\ model.filtered.items[i].Index < Len(model.candidates)

FilteredDistinct ==
    \A i, j \in 1..Len(model.filtered.items) :
        i # j => model.filtered.items[i].Index # model.filtered.items[j].Index

\* C39: after any sequence of arrivals, query edits, resizes, ticks and the
\* warm-start swap, every entry of the filtered list has
\* 0 <= index < len(candidates) and no candidate index occurs twice.
FilteredWellFormed == FilteredInRange /\ FilteredDistinct

\* After the warm-start swap a late candidate arrived under a query and
\* the filter merged it into the list: two entries, in range and distinct.
MergedAfterSwap ==
    /\ hist.swapped
    /\ hist.strategy = "append"
    /\ Len(model.filtered.items) = 2
    /\ Len(model.queryRunes) > 0

\* The swap replaced the cached vector by an empty scan and the list of
\* the cached vector went with it.
SwappedToEmpty ==
    /\ hist.swapped
    /\ model.candidates = <<>>
    /\ model.filtered.items = <<>>
    /\ model.status = <<"index refreshed", 0>>

\* ---------------------------------------------------------------------
\* Cursor and window under every key (main.go 183-215, 258-294).
\* ---------------------------------------------------------------------

\* Update(tea.KeyMsg) for "home": the cursor is set, ensureCursor is not
\* called.
KeyHome ==
    /\ model' = [model EXCEPT !.cursor = 0]
    /\ hist' = [NoHistory EXCEPT !.sinceKey = hist.sinceKey, !.resized = hist.resized,
                                 !.swapped = hist.swapped]
    /\ UNCHANGED <<tick, producerVars, outsideEdit>>

\* Update(tea.KeyMsg) for "end": likewise.
KeyEnd ==
    /\ model' = IF Len(model.filtered.items) > 0
                THEN [model EXCEPT !.cursor = Len(model.filtered.items) - 1]
                ELSE model
    /\ hist' = [NoHistory EXCEPT !.sinceKey = hist.sinceKey, !.resized = hist.resized,
                                 !.swapped = hist.swapped]
    /\ UNCHANGED <<tick, producerVars, outsideEdit>>

\* Update(tea.KeyMsg) for "pgup" and "pgdown": moveCursor by a page.
KeyPage ==
    /\ \E delta \in {0 - model.page, model.page} :
          model' = ensureCursor([model EXCEPT !.cursor = @ + delta])
    /\ hist' = [NoHistory EXCEPT !.sinceKey = hist.sinceKey, !.resized = hist.resized,
                                 !.swapped = hist.swapped]
    /\ UNCHANGED <<tick, producerVars, outsideEdit>>

CursorNext ==
    \/ EmitKeyed
    \/ EndScan
    \/ SendDone
    \/ CloseDone
    \/ CloseOut
    \/ ClockPass
    \/ KeyEdit
    \/ KeyMove
    \/ KeyPage
    \/ KeyHome
    \/ KeyEnd
    \/ WindowResize
    \/ Tick

\* The controller of SpecEdit with the home, end and page keys as well.
SpecCursor == EditInit /\ [][CursorNext]_vars

CursorInRange ==
    IF Len(model.filtered.items) = 0 THEN model.cursor = 0
    ELSE 0 <= model.cursor /\ model.cursor < Len(model.filtered.items)

SelectedRowVisible ==
    IF Len(model.filtered.items) = 0 THEN model.offset = 0
    ELSE /\ 0 <= model.offset
         /\ model.offset <= model.cursor
         /\ model.cursor < model.offset + model.page

\* C40: after every handled message, a non-empty filtered list has
\* 0 <= cursor < len(filtered) and 0 <= offset <= cursor < offset +
\* rowsPerPage, and an empty one has cursor = 0 and offset = 0.
CursorInWindow == CursorInRange /\ SelectedRowVisible

\* The end key left the cursor below the window.
CursorBelowWindow ==
    /\ Len(model.filtered.items) = 2
    /\ model.cursor = 1
    /\ model.offset = 0
    /\ model.page = 1

\* The home key left the cursor above the window.
CursorAboveWindow ==
    /\ Len(model.filtered.items) = 2
    /\ model.cursor = 0
    /\ model.offset = 1

\* What the code keeps: the cursor is always a row of the list, and the
\* window holds it after every tick and every move by a row or a page.
WindowAfterTickOrMove == (Tick \/ KeyMove \/ KeyPage) => SelectedRowVisible'

CursorKept == []CursorInRange /\ [][WindowAfterTickOrMove]_vars

====
